---- MODULE Spec2Model ----
(***************************************************************************)
(* A model of OmriNaor/proxy_server: the worker pool of threadpool.c (its  *)
(* linked work queue, the pool lock, the two condition variables, the      *)
(* worker loop, dispatch and destroy_threadpool) and the per-connection    *)
(* pipeline of proxyServer.c (thread_function and the request routines it  *)
(* calls).                                                                  *)
(*                                                                         *)
(* Two specifications share the module.  Spec runs the pool: a dispatcher  *)
(* thread, a destroyer thread and num_threads workers, the handler of an   *)
(* item being an opaque routine.  PipeSpec runs one connection through     *)
(* thread_function.                                                        *)
(***************************************************************************)
EXTENDS Integers, Sequences, FiniteSets, TLC

(***************************************************************************)
(* Bounds of the model.                                                    *)
(***************************************************************************)
\* Largest pool size that Init creates (MAXT_IN_POOL is far larger).
MaxWorkers == 2
\* Number of dispatch calls the dispatcher thread makes.
MaxItems == 3
\* The most bytes the destination sends before it closes its side.
MaxStream == 3
\* The most lines of the filter file.
MaxLines == 3
\* The limit of line 228 on the size of a pool.  threadpool.h, which defines
\* it, is not among the sources; the model takes a small limit.
MAXT_IN_POOL == 3

(***************************************************************************)
(* Thread identities and the null pointer.                                 *)
(***************************************************************************)
\* No thread: the value of the lock's owner while the mutex is free.
NoThread == 0
\* The thread that calls dispatch (main's accept loop).
Dispatcher == -1
\* The thread that calls destroy_threadpool.
Destroyer == -2
\* The C null pointer, for work_t* values.
NULL == 0

Workers == 1..MaxWorkers
Nodes == 1..MaxItems
Args == 1..MaxItems

VARIABLES
    \* ---- threadpool structure (threadpool.h, set up by create_threadpool)
    num_threads,   \* tp->num_threads
    qsize,         \* tp->qsize
    qhead,         \* tp->qhead
    qtail,         \* tp->qtail
    next,          \* work->next of every allocated work_t
    work_arg,      \* work->arg of every allocated work_t
    shutdown,      \* tp->shutdown
    dont_accept,   \* tp->dont_accept
    qlock,         \* owner of tp->qlock, NoThread when free
    \* ---- threads
    wpc,           \* where each worker is in do_work
    work,          \* do_work's local work_t* of each worker
    dpc,           \* where the dispatcher is in dispatch
    darg,          \* the argument of the dispatch call in progress
    ncalls,        \* dispatch calls made so far
    nalloc,        \* work_t objects malloc'ed so far
    xpc,           \* where the destroyer is in destroy_threadpool
    xjoin,         \* destroy_threadpool's loop variable i
    queued_at_destroy, \* qsize read by destroy_threadpool at line 200
    \* ---- observation of the run (history, not program state)
    accepted,      \* arguments whose work item was enqueued
    dropped,       \* arguments whose dispatch was refused (dont_accept set)
    nomem,         \* arguments whose dispatch failed to allocate a work_t
    started,       \* started[a]: the workers' calls of routine(a), in order
    finished       \* finished[a]: number of routine(a) calls that returned

poolVars == <<num_threads, qsize, qhead, qtail, next, work_arg, shutdown,
              dont_accept, qlock, wpc, work, dpc, darg, ncalls, nalloc, xpc,
              xjoin, queued_at_destroy, accepted, dropped, nomem, started,
              finished>>

VARIABLES
    \* ---- one connection in thread_function (proxyServer.c)
    wire,          \* the bytes the client sends
    ppc,           \* where thread_function is
    ci_request,    \* ci->request
    ci_host_name,  \* ci->host_name
    ci_clean_host_name, \* ci->clean_host_name
    ci_host_port,  \* ci->host_port
    ci_filter_content,  \* ci->filter_content, the lines of the filter file
    owned,         \* the heap blocks of the context that are allocated
    client_socket, \* ci->client_socket: "open" or "closed"
    destination_server_sd, \* thread_function's local: "none", "open", "closed"
    \* ---- observation of the run (history, not program state)
    responses,     \* status codes send_error_message wrote to the client
    stages,        \* the stages that ran, in order
    failed,        \* the stage that failed, "none" when none did
    connect_calls, \* calls of set_destination_server_connection
    forwarded,     \* the text written to the destination
    nrelease,      \* calls of destroy_communication_info
    checked_ip,    \* the address is_filtered_host compared with the filter
    is_filtered,   \* the value is_filtered_host returned
    \* ---- get_response_from_destination and the two sockets it uses
    dest_stream,   \* the bytes the destination sends before it closes
    dest_pos,      \* how many of them read() has returned
    buffer,        \* the bytes of the last read: buffer[0 .. read_bytes-1]
    total_written_bytes, \* write_to_socket_unsigned's offset in buffer
    client_out,    \* the bytes the relay has written to the client socket
    relay_failures, \* read or write calls of the relay that returned -1
    fault          \* an allocation or a socket operation failed

pipeVars == <<wire, ppc, ci_request, ci_host_name, ci_clean_host_name,
              ci_host_port, ci_filter_content, owned, client_socket,
              destination_server_sd, responses, stages, failed,
              connect_calls, forwarded, nrelease, checked_ip,
              is_filtered, fault>>

relayVars == <<dest_stream, dest_pos, buffer, total_written_bytes, client_out,
               relay_failures>>

VARIABLES
    \* ---- two workers in is_filtered_host's strtok loop (lines 405-453)
    nlines,        \* the number of lines of the filter file
    olds,          \* strtok's static save pointer, shared by all threads
    tk_pc,         \* where each worker is in the loop
    tk_line,       \* each worker's local: line
    tk_seen,       \* the lines each worker's loop body was run on, in order
    tk_hit,        \* whether each worker's loop ended at a matching line
    tk_freed,      \* the content_copy buffers that have been freed
    tk_uaf         \* strtok has read a freed buffer

tokVars == <<nlines, olds, tk_pc, tk_line, tk_seen, tk_hit, tk_freed, tk_uaf>>

VARIABLES
    \* ---- one call of create_threadpool (lines 226-283)
    cpc,           \* where the caller of create_threadpool stands
    cn,            \* the argument num_threads_in_pool
    ci,            \* the loop index i of line 266: workers started so far
    cj,            \* the loop index j of line 270
    cancel_req,    \* workers with a pending pthread_cancel request
    cresult        \* what the call came to: "none", "NULL", "tp" or "exit"

createVars == <<cpc, cn, ci, cj, cancel_req, cresult>>

VARIABLES
    \* ---- one call of write_to_socket (lines 799-821)
    w_pc,                  \* "idle", "write" (in the loop) or "returned"
    w_request,             \* the bytes at request
    w_total_written_bytes, \* the local total_written_bytes
    w_sent,                \* the bytes the socket has taken, in order
    w_calls,               \* the calls of write() made
    w_errors,              \* the calls of write() that returned -1
    w_ret                  \* the value returned, before its conversion to size_t

writeVars == <<w_pc, w_request, w_total_written_bytes, w_sent, w_calls,
               w_errors, w_ret>>

VARIABLES
    \* ---- one call of read_from_client_socket (lines 544-605)
    r_pc,            \* "idle", "alloc", "sockopt", "loop", "returned" or "done"
    r_wire,          \* the bytes the client sends before it goes silent or closes
    r_closes,        \* whether the client closes after them
    r_pos,           \* how many of them read() has delivered
    r_buffer,        \* the bytes stored in buffer: buffer[0 .. total_bytes_read-1]
    r_buffer_size,   \* the local buffer_size
    r_allocated,     \* whether the buffer is allocated and not freed
    r_cause,         \* why the function gave up: "none" or the call that failed
    r_ret,           \* the pointer returned
    r_responses      \* the error responses thread_function has sent

readVars == <<r_pc, r_wire, r_closes, r_pos, r_buffer, r_buffer_size,
              r_allocated, r_cause, r_ret, r_responses>>

VARIABLES
    \* ---- one call of send_error_message (lines 137-200)
    e_pc,          \* "idle", "compose", "write" or "done"
    e_error,       \* the parameter error
    e_date,        \* the text strftime wrote into date
    e_message,     \* full_message
    e_sent,        \* the characters the client socket has taken
    e_failed       \* whether a write() to the client failed

errVars == <<e_pc, e_error, e_date, e_message, e_sent, e_failed>>

VARIABLES
    \* ---- failed pthread calls in do_work (history, not program state)
    sync_fault     \* the call whose failure ended each worker, or "none"

faultVars == <<sync_fault>>

VARIABLES
    \* ---- two workers resolving their hosts (get_host_IP and
    \* ---- set_destination_server_connection)
    hostent,       \* gethostbyname's static result, shared by all threads
    g_pc,          \* where each worker is
    g_host,        \* ci->host_name of each worker's connection
    g_policy,      \* ci->filter_content of each worker's connection
    g_checked,     \* the address each worker's filter compared
    g_result,      \* what is_filtered_host returned to each worker
    g_connected    \* the address each worker connected to

resolveVars == <<hostent, g_pc, g_host, g_policy, g_checked, g_result,
                 g_connected>>

VARIABLES
    \* ---- main of proxyServer.c from line 939 on (the listener)
    m_pc,          \* where main is
    max_tasks,     \* main's max_tasks (argv[3])
    ws,            \* main's ws, the value set_my_server_configuration returned
    ws_listening,  \* whether a welcome socket is bound and listening
    m_i,           \* the loop variable i
    accept_calls,  \* calls of accept() made so far
    m_ci,          \* contexts malloc'ed by main, and those it freed itself
    exit_status    \* "none" while the process runs, else exit()'s argument

mainVars == <<m_pc, max_tasks, ws, ws_listening, m_i, accept_calls, m_ci,
              exit_status>>

VARIABLES
    \* ---- observation of set_destination_server_connection (history)
    connected_ip   \* the address connect() was called with, NoAddr if none

connVars == <<connected_ip>>

VARIABLES
    \* ---- the sizes in read_from_client_socket's loop (lines 546-602)
    n_pc,          \* "idle", "loop", "returned" or "trapped"
    n_buffer_size, \* buffer_size, an int
    n_total_bytes_read, \* total_bytes_read
    n_count,       \* the count the last read() was called with
    n_small        \* reads so far that delivered a single byte

growVars == <<n_pc, n_buffer_size, n_total_bytes_read, n_count, n_small>>

vars == <<poolVars, pipeVars, relayVars, tokVars, createVars, writeVars, readVars, errVars, faultVars, resolveVars, mainVars, connVars, growVars>>

(***************************************************************************)
(* The queue: enqueue and dequeue of threadpool.c on the linked list.      *)
(***************************************************************************)
\* The state of the queue fields as one record.
Queue == [head |-> qhead, tail |-> qtail, size |-> qsize, nxt |-> next]

\* An enqueue that links the node in front of the head.
enqueue_at_head(q, w) ==
    IF q.tail = NULL
    THEN [head |-> w, tail |-> w, size |-> q.size + 1,
          nxt |-> [q.nxt EXCEPT ![w] = NULL]]
    ELSE [head |-> w, tail |-> q.tail, size |-> q.size + 1,
          nxt |-> [q.nxt EXCEPT ![w] = q.head]]

\* enqueue(tp, work): link the node at the tail, count it.
enqueue(q, w) ==
    IF q.tail = NULL
    THEN [head |-> w, tail |-> w, size |-> q.size + 1,
          nxt |-> [q.nxt EXCEPT ![w] = NULL]]
    ELSE [head |-> q.head, tail |-> w, size |-> q.size + 1,
          nxt |-> [q.nxt EXCEPT ![w] = NULL, ![q.tail] = w]]

\* dequeue as it would be without lines 39-40: the tail is left pointing at
\* the node that was just removed when the queue becomes empty.
dequeue_keeps_tail(q) ==
    IF q.head = NULL
    THEN [head |-> q.head, tail |-> q.tail, size |-> q.size, nxt |-> q.nxt,
          got |-> NULL, unlocked |-> TRUE]
    ELSE LET h == q.head
         IN [head |-> q.nxt[h], tail |-> q.tail, size |-> q.size - 1,
             nxt |-> [q.nxt EXCEPT ![h] = NULL],
             got |-> h, unlocked |-> FALSE]

\* dequeue(tp), non-empty branch: unlink the head node.  The result carries
\* the node as .got; the empty branch gives .got = NULL and leaves the queue.
dequeue(q) ==
    IF q.head = NULL
    THEN [head |-> q.head, tail |-> q.tail, size |-> q.size, nxt |-> q.nxt,
          got |-> NULL, unlocked |-> TRUE]
    ELSE LET h == q.head
             nh == q.nxt[h]
         IN [head |-> nh,
             tail |-> IF nh = NULL THEN NULL ELSE q.tail,
             size |-> q.size - 1,
             nxt |-> [q.nxt EXCEPT ![h] = NULL],
             got |-> h, unlocked |-> FALSE]

\* The nodes linked from node n, in order (at most fuel of them).
RECURSIVE Linked(_, _, _)
Linked(nxt, n, fuel) ==
    IF n = NULL \/ fuel = 0 THEN <<>>
    ELSE <<n>> \o Linked(nxt, nxt[n], fuel - 1)

\* The queue's nodes from head, following next.
QueueNodes == Linked(next, qhead, MaxItems + 1)

(***************************************************************************)
(* Condition variables.  A thread blocked in pthread_cond_wait has         *)
(* released the mutex; when it is signalled, or wakes spuriously as POSIX  *)
(* allows, it has to take the mutex again before the wait returns.         *)
(***************************************************************************)
\* Workers blocked in pthread_cond_wait(&q_not_empty) of do_work.
NotEmptyWaiters == {w \in 1..num_threads : wpc[w] = "wait"}

(***************************************************************************)
(* Initial state: the pool as create_threadpool(n) returns it.             *)
(***************************************************************************)
PoolInit ==
    /\ num_threads \in 1..MaxWorkers
    /\ qsize = 0
    /\ qhead = NULL
    /\ qtail = NULL
    /\ next = [n \in Nodes |-> NULL]
    /\ work_arg = [n \in Nodes |-> NULL]
    /\ shutdown = 0
    /\ dont_accept = 0
    /\ qlock = NoThread
    /\ wpc = [w \in Workers |-> IF w <= num_threads THEN "lock" ELSE "none"]
    /\ work = [w \in Workers |-> NULL]
    /\ dpc = "idle"
    /\ darg = NULL
    /\ ncalls = 0
    /\ nalloc = 0
    /\ xpc = "idle"
    /\ xjoin = 0
    /\ queued_at_destroy = 0
    /\ accepted = {}
    /\ dropped = {}
    /\ nomem = {}
    /\ started = [a \in Args |-> <<>>]
    /\ finished = [a \in Args |-> 0]

(***************************************************************************)
(* pthread_cond_signal / pthread_cond_broadcast on q_not_empty, and        *)
(* pthread_cond_signal on q_empty (whose only waiter is the destroyer).    *)
(***************************************************************************)
\* A signal that is lost: waiter w stays blocked.
SignalNotEmpty_lost(w) == wpc

\* The worker program counters after a signal that unblocks waiter w.
SignalNotEmpty(w) == [wpc EXCEPT ![w] = "wake"]

\* The worker program counters after a broadcast: every waiter is unblocked.
BroadcastNotEmpty ==
    [w \in Workers |-> IF w \in NotEmptyWaiters THEN "wake" ELSE wpc[w]]

\* The destroyer's program counter after pthread_cond_signal(&q_empty).
SignalEmpty == IF xpc = "wait" THEN "wake" ELSE xpc

(***************************************************************************)
(* do_work: the worker loop.                                               *)
(***************************************************************************)
\* A worker loop without the wait: the worker goes on to dequeue whatever
\* the queue holds.
WorkerMustWait_never == FALSE

\* Line 137: the condition of the wait loop.
WorkerMustWait == qsize = 0 /\ shutdown = 0

\* Line 160: the worker signals q_empty after its dequeue left size n.
WorkerSignalsEmpty(n) == dont_accept = 1 /\ n = 0

\* Line 128: pthread_mutex_lock at the top of the loop.
W_Lock(w) ==
    /\ wpc[w] = "lock"
    /\ qlock = NoThread
    /\ qlock' = w
    /\ wpc' = [wpc EXCEPT ![w] = "test"]
    /\ UNCHANGED <<num_threads, qsize, qhead, qtail, next, work_arg, shutdown,
                   dont_accept, work, dpc, darg, ncalls, nalloc, xpc, xjoin,
                   queued_at_destroy, accepted, dropped, nomem, started, finished>>

\* Lines 137-145, first branch: the queue is empty and the pool is not shut
\* down, so the worker blocks in pthread_cond_wait, which releases the lock.
W_Wait(w) ==
    /\ wpc[w] = "test"
    /\ WorkerMustWait
    /\ qlock' = NoThread
    /\ wpc' = [wpc EXCEPT ![w] = "wait"]
    /\ UNCHANGED <<num_threads, qsize, qhead, qtail, next, work_arg, shutdown,
                   dont_accept, work, dpc, darg, ncalls, nalloc, xpc, xjoin,
                   queued_at_destroy, accepted, dropped, nomem, started, finished>>

\* pthread_cond_wait may return without a signal (a spurious wakeup).
W_Spurious(w) ==
    /\ wpc[w] = "wait"
    /\ wpc' = [wpc EXCEPT ![w] = "wake"]
    /\ UNCHANGED <<num_threads, qsize, qhead, qtail, next, work_arg, shutdown,
                   dont_accept, qlock, work, dpc, darg, ncalls, nalloc, xpc,
                   xjoin, queued_at_destroy, accepted, dropped, nomem, started,
                   finished>>

\* pthread_cond_wait returns holding the lock; the loop condition is tested
\* again.
W_Reacquire(w) ==
    /\ wpc[w] = "wake"
    /\ qlock = NoThread
    /\ qlock' = w
    /\ wpc' = [wpc EXCEPT ![w] = "test"]
    /\ UNCHANGED <<num_threads, qsize, qhead, qtail, next, work_arg, shutdown,
                   dont_accept, work, dpc, darg, ncalls, nalloc, xpc, xjoin,
                   queued_at_destroy, accepted, dropped, nomem, started, finished>>

\* Lines 148-155: shutdown observed: unlock and pthread_exit.
W_Exit(w) ==
    /\ wpc[w] = "test"
    /\ ~WorkerMustWait
    /\ shutdown = 1
    /\ qlock' = NoThread
    /\ wpc' = [wpc EXCEPT ![w] = "exit"]
    /\ UNCHANGED <<num_threads, qsize, qhead, qtail, next, work_arg, shutdown,
                   dont_accept, work, dpc, darg, ncalls, nalloc, xpc, xjoin,
                   queued_at_destroy, accepted, dropped, nomem, started, finished>>

\* Lines 157-168: dequeue one item and, when the pool is draining and the
\* queue is now empty, signal q_empty.  dequeue's empty branch unlocks the
\* lock itself.
W_Dequeue(w) ==
    /\ wpc[w] = "test"
    /\ ~WorkerMustWait
    /\ shutdown = 0
    /\ LET r == dequeue(Queue)
       IN /\ qhead' = r.head
          /\ qtail' = r.tail
          /\ qsize' = r.size
          /\ next' = r.nxt
          /\ work' = [work EXCEPT ![w] = r.got]
          /\ qlock' = IF r.unlocked THEN NoThread ELSE qlock
          /\ xpc' = IF WorkerSignalsEmpty(r.size) THEN SignalEmpty ELSE xpc
    /\ wpc' = [wpc EXCEPT ![w] = "unlock"]
    /\ UNCHANGED <<num_threads, work_arg, shutdown, dont_accept, dpc, darg,
                   ncalls, nalloc, xjoin, queued_at_destroy, accepted,
                   dropped, nomem, started, finished>>

\* A worker that goes on to its item without the unlock of line 170.
W_Unlock_keeps_lock(w) ==
    /\ wpc[w] = "unlock"
    /\ wpc' = [wpc EXCEPT ![w] = IF work[w] # NULL THEN "run" ELSE "lock"]
    /\ UNCHANGED <<num_threads, qsize, qhead, qtail, next, work_arg, shutdown,
                   dont_accept, qlock, work, dpc, darg, ncalls, nalloc, xpc,
                   xjoin, queued_at_destroy, accepted, dropped, nomem, started,
                   finished>>

\* Lines 170-178: unlock, then test work != NULL.  (An unlock of a mutex the
\* thread does not hold, reachable only through dequeue's empty branch,
\* clears a default mutex whoever holds it.)
W_Unlock(w) ==
    /\ wpc[w] = "unlock"
    /\ qlock' = NoThread
    /\ wpc' = [wpc EXCEPT ![w] = IF work[w] # NULL THEN "run" ELSE "lock"]
    /\ UNCHANGED <<num_threads, qsize, qhead, qtail, next, work_arg, shutdown,
                   dont_accept, work, dpc, darg, ncalls, nalloc, xpc, xjoin,
                   queued_at_destroy, accepted, dropped, nomem, started, finished>>

\* A worker that looks at shutdown once more before it runs the item it
\* holds, and exits with the item unexecuted.
W_RunStart_checks_shutdown(w) ==
    /\ wpc[w] = "run"
    /\ IF shutdown = 1
       THEN /\ wpc' = [wpc EXCEPT ![w] = "exit"]
            /\ work' = [work EXCEPT ![w] = NULL]
            /\ started' = started
       ELSE /\ wpc' = [wpc EXCEPT ![w] = "running"]
            /\ work' = work
            /\ started' = [started EXCEPT ![work_arg[work[w]]] = Append(@, w)]
    /\ UNCHANGED <<num_threads, qsize, qhead, qtail, next, work_arg, shutdown,
                   dont_accept, qlock, dpc, darg, ncalls, nalloc, xpc, xjoin,
                   queued_at_destroy, accepted, dropped, nomem, finished>>

\* Line 180: work->routine(work->arg) is called.
W_RunStart(w) ==
    /\ wpc[w] = "run"
    /\ started' = [started EXCEPT ![work_arg[work[w]]] = Append(@, w)]
    /\ wpc' = [wpc EXCEPT ![w] = "running"]
    /\ UNCHANGED <<num_threads, qsize, qhead, qtail, next, work_arg, shutdown,
                   dont_accept, qlock, work, dpc, darg, ncalls, nalloc, xpc,
                   xjoin, queued_at_destroy, accepted, dropped, nomem, finished>>

\* Lines 180-183: the routine returns, the work_t is freed, and the loop
\* starts over (the local work goes out of scope).
W_RunEnd(w) ==
    /\ wpc[w] = "running"
    /\ finished' = [finished EXCEPT ![work_arg[work[w]]] = @ + 1]
    /\ work' = [work EXCEPT ![w] = NULL]
    /\ wpc' = [wpc EXCEPT ![w] = "lock"]
    /\ UNCHANGED <<num_threads, qsize, qhead, qtail, next, work_arg, shutdown,
                   dont_accept, qlock, dpc, darg, ncalls, nalloc, xpc, xjoin,
                   queued_at_destroy, accepted, dropped, nomem, started>>

(***************************************************************************)
(* do_work when a pthread call returns an error.  Each of the four calls   *)
(* may fail; the worker prints the error and calls pthread_exit at once.   *)
(* A call that fails leaves the mutex as it was: pthread_mutex_lock has    *)
(* not taken it, pthread_mutex_unlock and pthread_cond_signal have not     *)
(* released it.  pthread_cond_wait fails either before it blocks, with the *)
(* mutex still held, or when it cannot take the mutex back on its return.  *)
(***************************************************************************)
\* No pthread call has failed in any worker.
FaultIdle == sync_fault = [w \in Workers |-> "none"]

\* Lines 128-133: pthread_mutex_lock fails; the worker exits without the
\* lock.
W_LockFails(w) ==
    /\ wpc[w] = "lock"
    /\ wpc' = [wpc EXCEPT ![w] = "exit"]
    /\ sync_fault' = [sync_fault EXCEPT ![w] = "lock"]
    /\ UNCHANGED <<num_threads, qsize, qhead, qtail, next, work_arg, shutdown,
                   dont_accept, qlock, work, dpc, darg, ncalls, nalloc, xpc,
                   xjoin, queued_at_destroy, accepted, dropped, nomem, started,
                   finished>>

\* Lines 139-144: pthread_cond_wait fails before it blocks; the worker exits
\* while it owns the lock it took at line 128.
W_WaitFails(w) ==
    /\ wpc[w] = "test"
    /\ WorkerMustWait
    /\ wpc' = [wpc EXCEPT ![w] = "exit"]
    /\ sync_fault' = [sync_fault EXCEPT ![w] = "wait"]
    /\ UNCHANGED <<num_threads, qsize, qhead, qtail, next, work_arg, shutdown,
                   dont_accept, qlock, work, dpc, darg, ncalls, nalloc, xpc,
                   xjoin, queued_at_destroy, accepted, dropped, nomem, started,
                   finished>>

\* Lines 139-144: pthread_cond_wait was woken and fails to take the lock
\* back; the worker exits without the lock.
W_ReacquireFails(w) ==
    /\ wpc[w] = "wake"
    /\ wpc' = [wpc EXCEPT ![w] = "exit"]
    /\ sync_fault' = [sync_fault EXCEPT ![w] = "wait"]
    /\ UNCHANGED <<num_threads, qsize, qhead, qtail, next, work_arg, shutdown,
                   dont_accept, qlock, work, dpc, darg, ncalls, nalloc, xpc,
                   xjoin, queued_at_destroy, accepted, dropped, nomem, started,
                   finished>>

\* Lines 148-155: shutdown observed and pthread_mutex_unlock fails; the
\* error is printed and the worker exits as it would have, the lock still
\* its own.
W_ExitUnlockFails(w) ==
    /\ wpc[w] = "test"
    /\ ~WorkerMustWait
    /\ shutdown = 1
    /\ wpc' = [wpc EXCEPT ![w] = "exit"]
    /\ sync_fault' = [sync_fault EXCEPT ![w] = "unlock"]
    /\ UNCHANGED <<num_threads, qsize, qhead, qtail, next, work_arg, shutdown,
                   dont_accept, qlock, work, dpc, darg, ncalls, nalloc, xpc,
                   xjoin, queued_at_destroy, accepted, dropped, nomem, started,
                   finished>>

\* Lines 157-167: the item is dequeued, the pool is draining and the queue
\* is now empty, and pthread_cond_signal(&q_empty) fails: nobody is woken
\* and the worker exits owning the lock, its item dequeued and never run.
W_SignalFails(w) ==
    /\ wpc[w] = "test"
    /\ ~WorkerMustWait
    /\ shutdown = 0
    /\ LET r == dequeue(Queue)
       IN /\ WorkerSignalsEmpty(r.size)
          /\ qhead' = r.head
          /\ qtail' = r.tail
          /\ qsize' = r.size
          /\ next' = r.nxt
          /\ work' = [work EXCEPT ![w] = r.got]
          /\ qlock' = IF r.unlocked THEN NoThread ELSE qlock
    /\ wpc' = [wpc EXCEPT ![w] = "exit"]
    /\ sync_fault' = [sync_fault EXCEPT ![w] = "signal"]
    /\ UNCHANGED <<num_threads, work_arg, shutdown, dont_accept, dpc, darg,
                   ncalls, nalloc, xpc, xjoin, queued_at_destroy, accepted,
                   dropped, nomem, started, finished>>

\* Lines 170-175: pthread_mutex_unlock fails; the lock stays as it is and
\* the worker exits, the item it dequeued never run.
W_UnlockFails(w) ==
    /\ wpc[w] = "unlock"
    /\ wpc' = [wpc EXCEPT ![w] = "exit"]
    /\ sync_fault' = [sync_fault EXCEPT ![w] = "unlock"]
    /\ UNCHANGED <<num_threads, qsize, qhead, qtail, next, work_arg, shutdown,
                   dont_accept, qlock, work, dpc, darg, ncalls, nalloc, xpc,
                   xjoin, queued_at_destroy, accepted, dropped, nomem, started,
                   finished>>

FaultStep ==
    \/ \E w \in 1..num_threads : W_LockFails(w) /\ UNCHANGED <<pipeVars, relayVars, tokVars, createVars, writeVars, readVars, errVars, resolveVars, mainVars, connVars, growVars>>
    \/ \E w \in 1..num_threads : W_WaitFails(w) /\ UNCHANGED <<pipeVars, relayVars, tokVars, createVars, writeVars, readVars, errVars, resolveVars, mainVars, connVars, growVars>>
    \/ \E w \in 1..num_threads : W_ReacquireFails(w) /\ UNCHANGED <<pipeVars, relayVars, tokVars, createVars, writeVars, readVars, errVars, resolveVars, mainVars, connVars, growVars>>
    \/ \E w \in 1..num_threads : W_ExitUnlockFails(w) /\ UNCHANGED <<pipeVars, relayVars, tokVars, createVars, writeVars, readVars, errVars, resolveVars, mainVars, connVars, growVars>>
    \/ \E w \in 1..num_threads : W_SignalFails(w) /\ UNCHANGED <<pipeVars, relayVars, tokVars, createVars, writeVars, readVars, errVars, resolveVars, mainVars, connVars, growVars>>
    \/ \E w \in 1..num_threads : W_UnlockFails(w) /\ UNCHANGED <<pipeVars, relayVars, tokVars, createVars, writeVars, readVars, errVars, resolveVars, mainVars, connVars, growVars>>

(***************************************************************************)
(* dispatch, called by the dispatcher thread with arguments 1, 2, ...      *)
(***************************************************************************)
\* dispatch testing the wrong flag: it refuses only once shutdown is set.
DispatchRefuses_on_shutdown == shutdown = 1

\* Line 90: the request is refused.
DispatchRefuses == dont_accept = 1

\* The caller enters dispatch(tp, routine, arg).  It does so only while the
\* pool exists, that is, before destroy_threadpool has returned.
D_Call ==
    /\ dpc = "idle"
    /\ ncalls < MaxItems
    /\ xpc # "done"
    /\ ncalls' = ncalls + 1
    /\ darg' = ncalls + 1
    /\ dpc' = "lock"
    /\ UNCHANGED <<num_threads, qsize, qhead, qtail, next, work_arg, shutdown,
                   dont_accept, qlock, wpc, work, nalloc, xpc, xjoin,
                   queued_at_destroy, accepted, dropped, nomem, started, finished>>

\* Line 86: pthread_mutex_lock.  A thread that still holds the lock from an
\* earlier call blocks here for ever.
D_Lock ==
    /\ dpc = "lock"
    /\ qlock = NoThread
    /\ qlock' = Dispatcher
    /\ dpc' = "check"
    /\ UNCHANGED <<num_threads, qsize, qhead, qtail, next, work_arg, shutdown,
                   dont_accept, wpc, work, darg, ncalls, nalloc, xpc, xjoin,
                   queued_at_destroy, accepted, dropped, nomem, started, finished>>

\* Lines 90-91: dont_accept is set: return (the lock is not released).
D_Refuse ==
    /\ dpc = "check"
    /\ DispatchRefuses
    /\ dropped' = dropped \cup {darg}
    /\ dpc' = "idle"
    /\ UNCHANGED <<num_threads, qsize, qhead, qtail, next, work_arg, shutdown,
                   dont_accept, qlock, wpc, work, darg, ncalls, nalloc, xpc,
                   xjoin, queued_at_destroy, accepted, nomem, started, finished>>

\* Lines 95-100: malloc fails: return (the lock is not released).
D_NoMemory ==
    /\ dpc = "check"
    /\ ~DispatchRefuses
    /\ nomem' = nomem \cup {darg}
    /\ dpc' = "idle"
    /\ UNCHANGED <<num_threads, qsize, qhead, qtail, next, work_arg, shutdown,
                   dont_accept, qlock, wpc, work, darg, ncalls, nalloc, xpc,
                   xjoin, queued_at_destroy, accepted, dropped, started, finished>>

\* Lines 95-105: a work_t is allocated, filled in and enqueued.
D_Enqueue ==
    /\ dpc = "check"
    /\ ~DispatchRefuses
    /\ LET w == nalloc + 1
           q == enqueue(Queue, w)
       IN /\ nalloc' = w
          /\ work_arg' = [work_arg EXCEPT ![w] = darg]
          /\ qhead' = q.head
          /\ qtail' = q.tail
          /\ qsize' = q.size
          /\ next' = q.nxt
    /\ accepted' = accepted \cup {darg}
    /\ dpc' = "unlock"
    /\ UNCHANGED <<num_threads, shutdown, dont_accept, qlock, wpc, work, darg,
                   ncalls, xpc, xjoin, queued_at_destroy, dropped, nomem, started,
                   finished>>

\* Line 106: pthread_mutex_unlock.
D_Unlock ==
    /\ dpc = "unlock"
    /\ qlock' = NoThread
    /\ dpc' = "signal"
    /\ UNCHANGED <<num_threads, qsize, qhead, qtail, next, work_arg, shutdown,
                   dont_accept, wpc, work, darg, ncalls, nalloc, xpc, xjoin,
                   queued_at_destroy, accepted, dropped, nomem, started, finished>>

\* Line 110: pthread_cond_signal(&q_not_empty): one waiter, if there is one,
\* is unblocked.
D_Signal ==
    /\ dpc = "signal"
    /\ \/ /\ NotEmptyWaiters = {}
          /\ wpc' = wpc
       \/ \E w \in NotEmptyWaiters : wpc' = SignalNotEmpty(w)
    /\ dpc' = "idle"
    /\ UNCHANGED <<num_threads, qsize, qhead, qtail, next, work_arg, shutdown,
                   dont_accept, qlock, work, darg, ncalls, nalloc, xpc, xjoin,
                   queued_at_destroy, accepted, dropped, nomem, started, finished>>

(***************************************************************************)
(* destroy_threadpool, called once by the destroyer thread.                *)
(***************************************************************************)
\* Line 200: the caller waits on q_empty when items are queued.
DestroyMustWait == qsize > 0

\* The caller enters destroy_threadpool(tp).
X_Call ==
    /\ xpc = "idle"
    /\ xpc' = "lock"
    /\ UNCHANGED <<num_threads, qsize, qhead, qtail, next, work_arg, shutdown,
                   dont_accept, qlock, wpc, work, dpc, darg, ncalls, nalloc,
                   xjoin, queued_at_destroy, accepted, dropped, nomem, started,
                   finished>>

\* Line 194: pthread_mutex_lock.
X_Lock ==
    /\ xpc = "lock"
    /\ qlock = NoThread
    /\ qlock' = Destroyer
    /\ xpc' = "drain"
    /\ UNCHANGED <<num_threads, qsize, qhead, qtail, next, work_arg, shutdown,
                   dont_accept, wpc, work, dpc, darg, ncalls, nalloc, xjoin,
                   queued_at_destroy, accepted, dropped, nomem, started, finished>>

\* Lines 198-201: set dont_accept; if items are queued, block in
\* pthread_cond_wait(&q_empty), which releases the lock.
X_Drain ==
    /\ xpc = "drain"
    /\ dont_accept' = 1
    /\ queued_at_destroy' = qsize
    /\ IF DestroyMustWait
       THEN qlock' = NoThread /\ xpc' = "wait"
       ELSE qlock' = qlock /\ xpc' = "shut"
    /\ UNCHANGED <<num_threads, qsize, qhead, qtail, next, work_arg, shutdown,
                   wpc, work, dpc, darg, ncalls, nalloc, xjoin, accepted,
                   dropped, nomem, started, finished>>

\* pthread_cond_wait may return without a signal (a spurious wakeup).
X_Spurious ==
    /\ xpc = "wait"
    /\ xpc' = "wake"
    /\ UNCHANGED <<num_threads, qsize, qhead, qtail, next, work_arg, shutdown,
                   dont_accept, qlock, wpc, work, dpc, darg, ncalls, nalloc,
                   xjoin, queued_at_destroy, accepted, dropped, nomem, started,
                   finished>>

\* Line 201: pthread_cond_wait returns holding the lock.  The condition is
\* not tested again: the wait is under an if, not a while.
X_Reacquire ==
    /\ xpc = "wake"
    /\ qlock = NoThread
    /\ qlock' = Destroyer
    /\ xpc' = "shut"
    /\ UNCHANGED <<num_threads, qsize, qhead, qtail, next, work_arg, shutdown,
                   dont_accept, wpc, work, dpc, darg, ncalls, nalloc, xjoin,
                   queued_at_destroy, accepted, dropped, nomem, started, finished>>

\* Lines 203-204: set shutdown and unlock.
X_Shutdown ==
    /\ xpc = "shut"
    /\ shutdown' = 1
    /\ qlock' = NoThread
    /\ xpc' = "bcast"
    /\ UNCHANGED <<num_threads, qsize, qhead, qtail, next, work_arg,
                   dont_accept, wpc, work, dpc, darg, ncalls, nalloc, xjoin,
                   queued_at_destroy, accepted, dropped, nomem, started, finished>>

\* Line 205: pthread_cond_broadcast(&q_not_empty).
X_Broadcast ==
    /\ xpc = "bcast"
    /\ wpc' = BroadcastNotEmpty
    /\ xpc' = "join"
    /\ xjoin' = 1
    /\ UNCHANGED <<num_threads, qsize, qhead, qtail, next, work_arg, shutdown,
                   dont_accept, qlock, work, dpc, darg, ncalls, nalloc,
                   queued_at_destroy, accepted, dropped, nomem, started, finished>>

\* Lines 207-208: pthread_join of worker i returns once that worker has
\* exited.
X_Join ==
    /\ xpc = "join"
    /\ xjoin <= num_threads
    /\ wpc[xjoin] = "exit"
    /\ xjoin' = xjoin + 1
    /\ UNCHANGED <<num_threads, qsize, qhead, qtail, next, work_arg, shutdown,
                   dont_accept, qlock, wpc, work, dpc, darg, ncalls, nalloc,
                   xpc, queued_at_destroy, accepted, dropped, nomem, started,
                   finished>>

\* Lines 210-215: every worker is joined; the pool is released and
\* destroy_threadpool returns.
X_Return ==
    /\ xpc = "join"
    /\ xjoin > num_threads
    /\ xpc' = "done"
    /\ UNCHANGED <<num_threads, qsize, qhead, qtail, next, work_arg, shutdown,
                   dont_accept, qlock, wpc, work, dpc, darg, ncalls, nalloc,
                   xjoin, queued_at_destroy, accepted, dropped, nomem, started,
                   finished>>

(***************************************************************************)
(* The pool's next-state relation.                                         *)
(***************************************************************************)
DispatcherStep ==
    \/ D_Call /\ UNCHANGED <<pipeVars, relayVars, tokVars, createVars, writeVars, readVars, errVars, faultVars, resolveVars, mainVars, connVars, growVars>>
    \/ D_Lock /\ UNCHANGED <<pipeVars, relayVars, tokVars, createVars, writeVars, readVars, errVars, faultVars, resolveVars, mainVars, connVars, growVars>>
    \/ D_Refuse /\ UNCHANGED <<pipeVars, relayVars, tokVars, createVars, writeVars, readVars, errVars, faultVars, resolveVars, mainVars, connVars, growVars>>
    \/ D_NoMemory /\ UNCHANGED <<pipeVars, relayVars, tokVars, createVars, writeVars, readVars, errVars, faultVars, resolveVars, mainVars, connVars, growVars>>
    \/ D_Enqueue /\ UNCHANGED <<pipeVars, relayVars, tokVars, createVars, writeVars, readVars, errVars, faultVars, resolveVars, mainVars, connVars, growVars>>
    \/ D_Unlock /\ UNCHANGED <<pipeVars, relayVars, tokVars, createVars, writeVars, readVars, errVars, faultVars, resolveVars, mainVars, connVars, growVars>>
    \/ D_Signal /\ UNCHANGED <<pipeVars, relayVars, tokVars, createVars, writeVars, readVars, errVars, faultVars, resolveVars, mainVars, connVars, growVars>>

DestroyerStep ==
    \/ X_Call /\ UNCHANGED <<pipeVars, relayVars, tokVars, createVars, writeVars, readVars, errVars, faultVars, resolveVars, mainVars, connVars, growVars>>
    \/ X_Lock /\ UNCHANGED <<pipeVars, relayVars, tokVars, createVars, writeVars, readVars, errVars, faultVars, resolveVars, mainVars, connVars, growVars>>
    \/ X_Drain /\ UNCHANGED <<pipeVars, relayVars, tokVars, createVars, writeVars, readVars, errVars, faultVars, resolveVars, mainVars, connVars, growVars>>
    \/ X_Spurious /\ UNCHANGED <<pipeVars, relayVars, tokVars, createVars, writeVars, readVars, errVars, faultVars, resolveVars, mainVars, connVars, growVars>>
    \/ X_Reacquire /\ UNCHANGED <<pipeVars, relayVars, tokVars, createVars, writeVars, readVars, errVars, faultVars, resolveVars, mainVars, connVars, growVars>>
    \/ X_Shutdown /\ UNCHANGED <<pipeVars, relayVars, tokVars, createVars, writeVars, readVars, errVars, faultVars, resolveVars, mainVars, connVars, growVars>>
    \/ X_Broadcast /\ UNCHANGED <<pipeVars, relayVars, tokVars, createVars, writeVars, readVars, errVars, faultVars, resolveVars, mainVars, connVars, growVars>>
    \/ X_Join /\ UNCHANGED <<pipeVars, relayVars, tokVars, createVars, writeVars, readVars, errVars, faultVars, resolveVars, mainVars, connVars, growVars>>
    \/ X_Return /\ UNCHANGED <<pipeVars, relayVars, tokVars, createVars, writeVars, readVars, errVars, faultVars, resolveVars, mainVars, connVars, growVars>>

WorkerStep ==
    \/ \E w \in 1..num_threads : W_Lock(w) /\ UNCHANGED <<pipeVars, relayVars, tokVars, createVars, writeVars, readVars, errVars, faultVars, resolveVars, mainVars, connVars, growVars>>
    \/ \E w \in 1..num_threads : W_Wait(w) /\ UNCHANGED <<pipeVars, relayVars, tokVars, createVars, writeVars, readVars, errVars, faultVars, resolveVars, mainVars, connVars, growVars>>
    \/ \E w \in 1..num_threads : W_Spurious(w) /\ UNCHANGED <<pipeVars, relayVars, tokVars, createVars, writeVars, readVars, errVars, faultVars, resolveVars, mainVars, connVars, growVars>>
    \/ \E w \in 1..num_threads : W_Reacquire(w) /\ UNCHANGED <<pipeVars, relayVars, tokVars, createVars, writeVars, readVars, errVars, faultVars, resolveVars, mainVars, connVars, growVars>>
    \/ \E w \in 1..num_threads : W_Exit(w) /\ UNCHANGED <<pipeVars, relayVars, tokVars, createVars, writeVars, readVars, errVars, faultVars, resolveVars, mainVars, connVars, growVars>>
    \/ \E w \in 1..num_threads : W_Dequeue(w) /\ UNCHANGED <<pipeVars, relayVars, tokVars, createVars, writeVars, readVars, errVars, faultVars, resolveVars, mainVars, connVars, growVars>>
    \/ \E w \in 1..num_threads : W_Unlock(w) /\ UNCHANGED <<pipeVars, relayVars, tokVars, createVars, writeVars, readVars, errVars, faultVars, resolveVars, mainVars, connVars, growVars>>
    \/ \E w \in 1..num_threads : W_RunStart(w) /\ UNCHANGED <<pipeVars, relayVars, tokVars, createVars, writeVars, readVars, errVars, faultVars, resolveVars, mainVars, connVars, growVars>>
    \/ \E w \in 1..num_threads : W_RunEnd(w) /\ UNCHANGED <<pipeVars, relayVars, tokVars, createVars, writeVars, readVars, errVars, faultVars, resolveVars, mainVars, connVars, growVars>>


(***************************************************************************)
(* Request text.  A C string is a sequence of tokens, each token standing  *)
(* for the characters it spells; the patterns the code searches for        *)
(* ("\r\n", "Host: ", "Connection:", "HTTP/", "GET ") are whole tokens, so  *)
(* strstr, strncmp and sscanf act on tokens as they act on characters.     *)
(* A char* that may be NULL is a record with a null flag.                  *)
(***************************************************************************)
SP == " "
CRLF == "CRLF"
NullStr == [null |-> TRUE, s |-> <<>>]
Str(s) == [null |-> FALSE, s |-> s]

\* The least element of a non-empty set of integers.
Least(S) == CHOOSE i \in S : \A j \in S : i <= j

\* strstr(s + from - 1, pat): the index of the first occurrence of pat in s
\* at or after from, 0 when there is none (a NULL result).
strstr_from(s, pat, from) ==
    LET cand == {i \in from..(Len(s) - Len(pat) + 1) :
                    SubSeq(s, i, i + Len(pat) - 1) = pat}
    IN IF cand = {} THEN 0 ELSE Least(cand)

\* strstr(s, pat).
strstr(s, pat) == strstr_from(s, pat, 1)

\* The tokens that begin with the characters "HTTP/".
HttpTokens == {"HTTP/1.0", "HTTP/1.1", "HTTP/2.0"}

\* The header text that set_connection_close writes.
ConnectionClose == <<"Connection:", SP, "close">>

\* set_connection_close(ci): the return value and the new ci->request.
\* mem_ok is whether its malloc succeeds.
set_connection_close(req, mem_ok) ==
    IF req.null THEN [rc |-> -1, request |-> req]
    ELSE
    LET s == req.s
        end_of_headers == strstr(s, <<CRLF, CRLF>>)
        upper == strstr(s, <<"Connection:">>)
        connection_header ==
            IF upper # 0 THEN upper ELSE strstr(s, <<"connection:">>)
    IN IF connection_header # 0 /\ end_of_headers # 0
       THEN LET start_of_next_header ==
                    strstr_from(s, <<CRLF>>, connection_header)
            IN IF start_of_next_header # 0
               THEN IF ~mem_ok THEN [rc |-> -1, request |-> req]
                    ELSE [rc |-> 1,
                          request |->
                            Str(SubSeq(s, 1, connection_header - 1)
                                \o ConnectionClose
                                \o SubSeq(s, start_of_next_header, Len(s)))]
               \* modified_request stays NULL; lines 68-71 still run.
               ELSE [rc |-> 1, request |-> NullStr]
       ELSE IF end_of_headers # 0
       THEN IF ~mem_ok THEN [rc |-> -1, request |-> req]
            ELSE [rc |-> 1,
                  request |->
                    Str(SubSeq(s, 1, end_of_headers - 1)
                        \o <<CRLF>> \o ConnectionClose \o <<CRLF, CRLF>>)]
       ELSE [rc |-> -1, request |-> req]

\* get_host_name(str): the text between the first "Host: " and the next
\* "\r\n", NULL when either is missing or malloc fails.
get_host_name(req, mem_ok) ==
    IF req.null THEN NullStr
    ELSE
    LET s == req.s
        host_start == strstr(s, <<"Host:", SP>>)
        host_end == strstr_from(s, <<CRLF>>, host_start + 2)
    IN IF host_start = 0 THEN NullStr
       ELSE IF host_end = 0 THEN NullStr
       ELSE IF ~mem_ok THEN NullStr
       ELSE Str(SubSeq(s, host_start + 2, host_end - 1))

\* is_legal_http_version(str): the first "HTTP/" is followed by 1.0 or 1.1.
is_legal_http_version(s) ==
    LET cand == {i \in 1..Len(s) : s[i] \in HttpTokens}
    IN cand # {} /\ s[Least(cand)] \in {"HTTP/1.0", "HTTP/1.1"}

\* The number of whitespace-separated words of a line, as sscanf("%s")
\* finds them.
WordCount(line) ==
    Cardinality({i \in 1..Len(line) :
                    line[i] # SP /\ (i = 1 \/ line[i - 1] = SP)})

\* The k-th whitespace-separated word of a line (a sequence of tokens),
\* <<>> when there is none.
Word(line, k) ==
    LET starts == {i \in 1..Len(line) :
                      line[i] # SP /\ (i = 1 \/ line[i - 1] = SP)}
        before(i) == Cardinality({j \in starts : j < i})
        at == {i \in starts : before(i) = k - 1}
    IN IF at = {} THEN <<>>
       ELSE LET b == Least(at)
                ends == {j \in b..Len(line) :
                            j = Len(line) \/ line[j + 1] = SP}
            IN SubSeq(line, b, Least(ends))

\* is_legal_request_format(str): sscanf of "%63s %1023s %63s" on the first
\* line returns 3, which it does when the line has three words or more.
is_legal_request_format(s) ==
    LET end_of_first_line == strstr(s, <<CRLF>>)
    IN /\ end_of_first_line # 0
       /\ WordCount(SubSeq(s, 1, end_of_first_line - 1)) >= 3

\* strncmp(ci->request, "GET ", 4) == 0.
starts_with_GET(s) == Len(s) >= 2 /\ s[1] = "GET" /\ s[2] = SP

(***************************************************************************)
(* Host names, ports, addresses and the filter.                            *)
(***************************************************************************)
\* The port get_port returns when the Host value names none.
DefaultPort == 80
\* The largest valid port.
MaxPort == 65535

\* strtol on a token: whether it converts anything (ok), the number it
\* converts (0 when nothing), and whether it consumes the whole token (all).
strtol(t) ==
    CASE t = "8080" -> [ok |-> TRUE, val |-> 8080, all |-> TRUE]
      [] t = "70000" -> [ok |-> TRUE, val |-> 70000, all |-> TRUE]
      [] t = "0" -> [ok |-> TRUE, val |-> 0, all |-> TRUE]
      [] t = "8" -> [ok |-> TRUE, val |-> 8, all |-> TRUE]
      [] t = "24" -> [ok |-> TRUE, val |-> 24, all |-> TRUE]
      [] t = "32" -> [ok |-> TRUE, val |-> 32, all |-> TRUE]
      [] t = "33" -> [ok |-> TRUE, val |-> 33, all |-> TRUE]
      [] t = "-1" -> [ok |-> TRUE, val |-> -1, all |-> TRUE]
      [] t = "0000" -> [ok |-> TRUE, val |-> 0, all |-> TRUE]
      [] t = "00008" -> [ok |-> TRUE, val |-> 8, all |-> TRUE]
      [] t = "8x" -> [ok |-> TRUE, val |-> 8, all |-> FALSE]
      [] OTHER -> [ok |-> FALSE, val |-> 0, all |-> FALSE]

\* get_clean_host(host): skip a leading "http://", then a leading "www.",
\* and cut at the first ':'.  NULL when malloc fails.
get_clean_host(host, mem_ok) ==
    LET a == IF Len(host) >= 1 /\ host[1] = "http://" THEN 2 ELSE 1
        b == IF Len(host) >= a /\ host[a] = "www." THEN a + 1 ELSE a
        colon_pos == strstr_from(host, <<":">>, b)
        last == IF colon_pos # 0 THEN colon_pos - 1 ELSE Len(host)
    IN IF ~mem_ok THEN NullStr ELSE Str(SubSeq(host, b, last))

\* get_port(str): the number after the first ':' of the Host value (the ':'
\* of a leading "http://" counts), 80 when there is no ':' or no number
\* after it, -1 when the number is outside [0, 65535].
get_port(host) ==
    IF host.null THEN -1
    ELSE
    LET s == host.s
        colons == {i \in 1..Len(s) : s[i] \in {":", "http://"}}
    IN IF colons = {} THEN DefaultPort
       ELSE LET colon_pos == Least(colons)
                n == IF s[colon_pos] = ":" /\ colon_pos < Len(s)
                     THEN strtol(s[colon_pos + 1])
                     ELSE [ok |-> FALSE, val |-> 0, all |-> FALSE]
            IN IF ~n.ok THEN DefaultPort
               ELSE IF n.val < 0 \/ n.val > MaxPort THEN -1
               ELSE n.val

\* An IPv4 address is its four octets; NoAddr is a failed resolution.
NoAddr == <<>>
IpA1 == <<10, 0, 0, 5>>
IpA2 == <<192, 168, 1, 5>>

\* gethostbyname(name): what the resolver may answer.  Host a has two
\* addresses; any lookup may fail.
DnsAnswers(name) ==
    IF name = <<"a">> THEN {IpA1, IpA2, NoAddr} ELSE {NoAddr}

\* Bit i (0 = most significant) of an address, as the character the code
\* writes.
BitChar(ip, i) ==
    LET octet == ip[(i \div 8) + 1]
        shift == 7 - (i % 8)
    IN IF (octet \div (2 ^ shift)) % 2 = 1 THEN "1" ELSE "0"

\* What sscanf's "%4s" stores of the text after the '/': at most four
\* characters.
first4(t) == IF t = "00008" THEN "0000" ELSE t

\* Lines 295-316 of ip_to_binary: the mask length.  Without a '/' the code
\* appends "/32"; with nothing after the '/' sscanf stores nothing and
\* mask_str keeps "/32", which strtol does not convert.  A text that is not
\* wholly a number in [0, 32] gives 32.
binary_mask(has_slash, mask_text) ==
    LET mask_str == IF ~has_slash THEN "32"
                    ELSE IF mask_text = "" THEN "/32"
                    ELSE first4(mask_text)
        n == strtol(mask_str)
    IN IF ~n.ok \/ ~n.all \/ n.val < 0 \/ n.val > 32 THEN 32 ELSE n.val

\* ip_to_binary(ip_with_mask): the first mask bits of the address, NULL
\* (null flag) when the address does not parse.
ip_to_binary(ip, has_slash, mask_text) ==
    LET mask == binary_mask(has_slash, mask_text)
    IN IF Len(ip) # 4 THEN NullStr
       ELSE Str([i \in 1..mask |-> BitChar(ip, i - 1)])

\* Character i (from 1) of a C string: the terminator after its end.
CharAt(b, i) == IF i <= Len(b) THEN b[i] ELSE "NUL"

\* compare_binary_ips(ip1, ip2, mask_size).
compare_binary_ips(binary_ip1, binary_ip2, mask_size) ==
    \A i \in 1..mask_size : CharAt(binary_ip1, i) = CharAt(binary_ip2, i)

\* A line of the filter text: an address entry ip, ip/mask (a line that
\* starts with a digit; the mask is the text after the '/') or a host-name
\* literal.
IpLine(ip) ==
    [digit |-> TRUE, ip |-> ip, has_slash |-> FALSE, mask |-> "", name |-> <<>>]
CidrLine(ip, mask) ==
    [digit |-> TRUE, ip |-> ip, has_slash |-> TRUE, mask |-> mask, name |-> <<>>]
NameLine(name) ==
    [digit |-> FALSE, ip |-> <<>>, has_slash |-> FALSE, mask |-> "", name |-> name]

\* Lines 427-433 of is_filtered_host: the number of bits to compare, from
\* strtol on the text after the '/' (0 when it converts nothing).
mask_size_of(line) ==
    IF line.has_slash
    THEN LET mask == strtol(line.mask).val
         IN IF mask >= 0 /\ mask <= 32 THEN mask ELSE 32
    ELSE 32

\* A variant that compares the host-name literal with the cleaned host.
LineMatches_compares_clean_host(line, binary_host_ip, host) ==
    IF line.digit
    THEN LET binary_line_ip == ip_to_binary(line.ip, line.has_slash, line.mask)
         IN /\ ~binary_line_ip.null
            /\ compare_binary_ips(binary_host_ip, binary_line_ip.s,
                                  mask_size_of(line))
    ELSE get_clean_host(host, TRUE).s = line.name

\* Lines 417-450: whether one line of the filter matches.
LineMatches(line, binary_host_ip, host) ==
    IF line.digit
    THEN LET binary_line_ip == ip_to_binary(line.ip, line.has_slash, line.mask)
         IN /\ ~binary_line_ip.null
            /\ compare_binary_ips(binary_host_ip, binary_line_ip.s,
                                  mask_size_of(line))
    ELSE host = line.name

\* A variant that lets a host through when it does not resolve.
is_filtered_host_fails_open(file_content, host, answer, mem_ok) ==
    IF answer = NoAddr \/ ~mem_ok THEN 0
    ELSE LET binary_host_ip == ip_to_binary(answer, TRUE, "32").s
         IN IF \E k \in 1..Len(file_content) :
                   LineMatches(file_content[k], binary_host_ip, host)
            THEN 1 ELSE 0

\* is_filtered_host(file_content, host): -1 when the host does not resolve
\* (answer = NoAddr) or an allocation fails, 1 when a line matches, else 0.
is_filtered_host(file_content, host, answer, mem_ok) ==
    IF answer = NoAddr \/ ~mem_ok THEN -1
    ELSE LET binary_host_ip == ip_to_binary(answer, TRUE, "32").s
         IN IF \E k \in 1..Len(file_content) :
                   LineMatches(file_content[k], binary_host_ip, host)
            THEN 1 ELSE 0

(***************************************************************************)
(* thread_function: the pipeline that serves one connection.               *)
(***************************************************************************)
\* ErrorType of proxyServer.h.
ERROR_400_BAD_REQUEST == 400
ERROR_404_NOT_FOUND == 404
ERROR_501_NOT_IMPLEMENTED == 501
ERROR_403_FORBIDDEN == 403
ERROR_500_INTERNAL == 500

\* send_error_message(error, sd): one response with this status is written
\* to the client socket.
send_error_message(error, sent) == Append(sent, error)

\* The request lines, header blocks and bodies a client may send.
FirstLines ==
    { <<"GET", SP, "/", SP, "HTTP/1.1">>,
      <<"POST", SP, "/", SP, "HTTP/1.1">>,
      <<"GET", SP, "/", "Host:", SP, "a", SP, "HTTP/1.1">>,
      <<"GET", SP, "/", "Host:", SP, "a">>,
      <<"GET", SP, "/", SP, "HTTP/2.0">>,
      <<"GET", SP, "/">>,
      <<"GET", SP, "/", SP, "x", SP, "HTTP/1.1">>,
      <<"GET", SP, "/", SP, "HTTP/1.1", SP, "x">>,
      <<"POST", SP, "/", "HTTP/2.0", SP, "HTTP/1.1">> }

HeaderBlocks ==
    { <<>>,
      <<"Host:", SP, "a", CRLF>>,
      <<"Host:", SP, "a", CRLF, "Connection:", SP, "keep-alive", CRLF>>,
      <<"X:", SP, "HTTP/1.1", CRLF>>,
      <<"Host:", SP, "www.", "a", ":", "8080", CRLF>>,
      <<"Host:", SP, "a", ":", "70000", CRLF>>,
      <<"Host:", SP, "http://", "a", ":", "8080", CRLF>>,
      <<"Host:", SP, "b", CRLF>>,
      <<"host:", SP, "a", CRLF>>,
      <<"Proxy-", "Connection:", SP, "keep-alive", CRLF, "Host:", SP, "a", CRLF>> }

Bodies ==
    { <<>>,
      <<"Connection:", SP, "x">>,
      <<"Host:", SP, "a", CRLF>> }

Requests ==
    { l \o <<CRLF>> \o h \o <<CRLF>> \o b :
        l \in FirstLines, h \in HeaderBlocks, b \in Bodies }

\* The filter files the proxy may be started with.
Policies ==
    { <<>>,
      <<CidrLine(<<10, 0, 0, 0>>, "8")>>,
      <<NameLine(<<"a">>)>>,
      <<CidrLine(<<192, 168, 1, 0>>, "24"), NameLine(<<"b">>)>>,
      <<IpLine(<<10, 0, 0, 5>>)>>,
      <<CidrLine(<<172, 16, 0, 0>>, "0")>>,
      <<CidrLine(<<10, 0, 0, 0>>, "33")>>,
      <<CidrLine(<<10, 0, 0, 0>>, "00008")>>,
      <<CidrLine(<<172, 16, 0, 0>>, "")>>,
      <<CidrLine(<<10, 0, 0, 0>>, "8x")>> }

\* The stage thread_function runs after a stage that succeeded.
StageAfter(stage) ==
    CASE stage = "read" -> "normalize"
      [] stage = "normalize" -> "validate"
      [] stage = "validate" -> "filter"
      [] stage = "filter" -> "derive"
      [] stage = "derive" -> "port"
      [] stage = "port" -> "connect"
      [] stage = "connect" -> "forward"
      [] stage = "forward" -> "relay"
      [] stage = "relay" -> "finish"

\* A variant that goes on to forward when the connection was not made.
Goto_forwards_after_failed_connect(stage, ok) ==
    IF ok \/ stage = "connect" THEN StageAfter(stage) ELSE "finish"

\* A variant in which a failed write to the destination still relays.
Goto_relays_after_failed_forward(stage, ok) ==
    IF ok \/ stage = "forward" THEN StageAfter(stage) ELSE "finish"

\* Where thread_function goes after a stage: on, or to the finish label.
Goto(stage, ok) == IF ok THEN StageAfter(stage) ELSE "finish"

\* The blocks destroy_communication_info frees: each string whose pointer
\* is not NULL, the filter copy, and the structure itself.
FreedBlocks(request, host_name, clean_host_name) ==
    (IF host_name.null THEN {} ELSE {"host_name"})
    \cup (IF clean_host_name.null THEN {} ELSE {"clean_host_name"})
    \cup (IF request.null THEN {} ELSE {"request"})
    \cup {"filter_content", "ci"}

\* A variant that leaves ci->request allocated.
destroy_keeps_request(blocks, request, host_name, clean_host_name) ==
    [owned |-> blocks \ FreedBlocks(NullStr, host_name, clean_host_name),
     client_socket |-> "closed"]

\* destroy_communication_info(ci).
destroy_communication_info(blocks, request, host_name, clean_host_name) ==
    [owned |-> blocks \ FreedBlocks(request, host_name, clean_host_name),
     client_socket |-> "closed"]

\* A connection as main hands it to the pool: init_communication_info, the
\* accepted socket and a copy of the filter file.
PipeFields(w, f, pc) ==
    /\ wire = w
    /\ ppc = pc
    /\ ci_request = NullStr
    /\ ci_host_name = NullStr
    /\ ci_clean_host_name = NullStr
    /\ ci_host_port = -1
    /\ ci_filter_content = f
    /\ owned = {"ci", "filter_content"}
    /\ client_socket = "open"
    /\ destination_server_sd = "none"
    /\ responses = <<>>
    /\ stages = <<>>
    /\ failed = "none"
    /\ connect_calls = 0
    /\ forwarded = NullStr
    /\ nrelease = 0
    /\ checked_ip = NoAddr
    /\ is_filtered = 0
    /\ fault = FALSE
    /\ dest_stream = <<>>
    /\ dest_pos = 0
    /\ buffer = <<>>
    /\ total_written_bytes = 0
    /\ client_out = <<>>
    /\ relay_failures = 0

\* No connection is being served.
PipeIdle == PipeFields(<<>>, <<>>, "none")

\* A worker is about to call thread_function on a connection.
PipeInit == \E w \in Requests, f \in Policies : PipeFields(w, f, "read")

\* Line 722-727: read_from_client_socket.
P_Read ==
    /\ ppc = "read"
    /\ \E ok \in BOOLEAN :
        /\ ci_request' = IF ok THEN Str(wire) ELSE NullStr
        /\ owned' = IF ok THEN owned \cup {"request"} ELSE owned
        /\ responses' = IF ok THEN responses
                        ELSE send_error_message(ERROR_500_INTERNAL, responses)
        /\ failed' = IF ok THEN failed ELSE "read"
        /\ fault' = (fault \/ ~ok)
        /\ ppc' = Goto("read", ok)
    /\ stages' = Append(stages, "read")
    /\ UNCHANGED <<wire, ci_host_name, ci_clean_host_name, ci_host_port,
                   ci_filter_content, client_socket, destination_server_sd,
                   connect_calls, forwarded, nrelease,
                   checked_ip, is_filtered, relayVars>>

\* Line 730-734: set_connection_close.
P_Normalize ==
    /\ ppc = "normalize"
    /\ \E mem_ok \in BOOLEAN :
        LET r == set_connection_close(ci_request, mem_ok)
            ok == r.rc = 1
        IN /\ ci_request' = r.request
           /\ owned' = IF r.request.null THEN owned \ {"request"} ELSE owned
           /\ responses' = IF ok THEN responses
                           ELSE send_error_message(ERROR_500_INTERNAL, responses)
           /\ failed' = IF ok THEN failed ELSE "normalize"
           /\ fault' = (fault \/ ~mem_ok)
           /\ ppc' = Goto("normalize", ok)
    /\ stages' = Append(stages, "normalize")
    /\ UNCHANGED <<wire, ci_host_name, ci_clean_host_name, ci_host_port,
                   ci_filter_content, client_socket, destination_server_sd,
                   connect_calls, forwarded, nrelease,
                   checked_ip, is_filtered, relayVars>>

\* is_legal_request, lines 232-248: host, version, format, then method.
P_Validate ==
    /\ ppc = "validate"
    /\ \E mem_ok \in BOOLEAN :
        LET host == get_host_name(ci_request, mem_ok)
            bad == \/ host.null
                   \/ ~is_legal_http_version(ci_request.s)
                   \/ ~is_legal_request_format(ci_request.s)
            ok == ~bad /\ starts_with_GET(ci_request.s)
        IN /\ ci_host_name' = host
           /\ owned' = IF host.null THEN owned ELSE owned \cup {"host_name"}
           /\ responses' =
                IF bad
                THEN send_error_message(ERROR_400_BAD_REQUEST, responses)
                ELSE IF ~ok
                THEN send_error_message(ERROR_501_NOT_IMPLEMENTED, responses)
                ELSE responses
           /\ failed' = IF ok THEN failed ELSE "validate"
           /\ fault' = (fault \/ ~mem_ok)
           /\ ppc' = Goto("validate", ok)
    /\ stages' = Append(stages, "validate")
    /\ UNCHANGED <<wire, ci_request, ci_clean_host_name, ci_host_port,
                   ci_filter_content, client_socket, destination_server_sd,
                   connect_calls, forwarded, nrelease,
                   checked_ip, is_filtered, relayVars>>

\* is_legal_request, lines 251-268: the filter decision.
P_Filter ==
    /\ ppc = "filter"
    /\ \E mem_ok \in BOOLEAN :
       \E answer \in DnsAnswers(get_clean_host(ci_host_name.s, TRUE).s) :
        LET result == is_filtered_host(ci_filter_content, ci_host_name.s,
                                       answer, mem_ok)
            ok == result = 0
        IN /\ checked_ip' = answer
           /\ is_filtered' = result
           /\ responses' =
                IF result = -1
                THEN send_error_message(ERROR_404_NOT_FOUND, responses)
                ELSE IF result = 1
                THEN send_error_message(ERROR_403_FORBIDDEN, responses)
                ELSE responses
           /\ failed' = IF ok THEN failed ELSE "filter"
           /\ fault' = (fault \/ ~mem_ok)
           /\ ppc' = Goto("filter", ok)
    /\ stages' = Append(stages, "filter")
    /\ UNCHANGED <<wire, ci_request, ci_host_name, ci_clean_host_name,
                   ci_host_port, ci_filter_content, owned, client_socket,
                   destination_server_sd, connect_calls, forwarded, nrelease, relayVars>>

\* Line 742-747: get_clean_host.
P_Clean ==
    /\ ppc = "derive"
    /\ \E mem_ok \in BOOLEAN :
        LET clean == get_clean_host(ci_host_name.s, mem_ok)
            ok == ~clean.null
        IN /\ ci_clean_host_name' = clean
           /\ owned' = IF ok THEN owned \cup {"clean_host_name"} ELSE owned
           /\ responses' = IF ok THEN responses
                           ELSE send_error_message(ERROR_500_INTERNAL, responses)
           /\ failed' = IF ok THEN failed ELSE "derive"
           /\ fault' = (fault \/ ~mem_ok)
           /\ ppc' = Goto("derive", ok)
    /\ stages' = Append(stages, "derive")
    /\ UNCHANGED <<wire, ci_request, ci_host_name, ci_host_port,
                   ci_filter_content, client_socket, destination_server_sd,
                   connect_calls, forwarded, nrelease,
                   checked_ip, is_filtered, relayVars>>

\* Line 750-755: get_port.
P_Port ==
    /\ ppc = "port"
    /\ LET port == get_port(ci_host_name)
           ok == port # -1
       IN /\ ci_host_port' = port
          /\ responses' = IF ok THEN responses
                          ELSE send_error_message(ERROR_500_INTERNAL, responses)
          /\ failed' = IF ok THEN failed ELSE "derive"
          /\ ppc' = Goto("port", ok)
    /\ UNCHANGED <<wire, ci_request, ci_host_name, ci_clean_host_name,
                   ci_filter_content, owned, client_socket,
                   destination_server_sd, stages, connect_calls, forwarded,
                   nrelease, fault,
                   checked_ip, is_filtered, relayVars>>

\* What a destination may send before it closes its side: byte i of the
\* stream is the number i.
DestStreams == {[i \in 1..n |-> i] : n \in 0..MaxStream}

\* connect() has not been called.
ConnIdle == connected_ip = NoAddr

\* Line 758-759: set_destination_server_connection.  It fails when socket()
\* fails, the name does not resolve, or connect() fails; nothing is sent to
\* the client then.
P_Connect ==
    /\ ppc = "connect"
    /\ \E sock_ok \in BOOLEAN, conn_ok \in BOOLEAN :
       \E answer \in DnsAnswers(ci_clean_host_name.s) :
        LET ok == sock_ok /\ answer # NoAddr /\ conn_ok
        IN /\ destination_server_sd' = IF ok THEN "open" ELSE "none"
           /\ dest_stream' \in IF ok THEN DestStreams ELSE {dest_stream}
           /\ connected_ip' = IF sock_ok /\ answer # NoAddr
                               THEN answer ELSE connected_ip
           /\ failed' = IF ok THEN failed ELSE "connect"
           /\ fault' = (fault \/ ~sock_ok)
           /\ ppc' = Goto("connect", ok)
    /\ connect_calls' = connect_calls + 1
    /\ stages' = Append(stages, "connect")
    /\ UNCHANGED <<wire, ci_request, ci_host_name, ci_clean_host_name,
                   ci_host_port, ci_filter_content, owned, client_socket,
                   responses, forwarded, nrelease,
                   checked_ip, is_filtered,
                   dest_pos, buffer, total_written_bytes, client_out,
                   relay_failures>>

\* a < b as C compares two values converted to size_t, a and b being the
\* values before the conversion: a negative one becomes larger than every
\* non-negative one.
size_t_less(a, b) ==
    IF a < 0 /\ b >= 0 THEN FALSE
    ELSE IF a >= 0 /\ b < 0 THEN TRUE
    ELSE a < b

\* Line 762: write_to_socket(...) == -1, on its size_t result; ret is the
\* value the helper returned before the conversion.  Both sides convert to
\* the same size_t exactly when they are equal.
write_failed_tests_less(ret) == size_t_less(ret, 0)
write_failed(ret) == ret = 0 - 1

\* Line 762: write_to_socket of the request to the destination, which
\* returns the length of the request or -1; on failure lines 765 and 768.
P_Forward ==
    /\ ppc = "forward"
    /\ \E ret \in {0 - 1, Len(ci_request.s)} :
        LET ok == ~write_failed(ret)
        IN
        /\ forwarded' = IF ret # 0 - 1 THEN ci_request ELSE forwarded
        /\ responses' = IF ok THEN responses
                        ELSE send_error_message(ERROR_500_INTERNAL, responses)
        /\ destination_server_sd' = IF ok THEN destination_server_sd
                                    ELSE "closed"
        /\ failed' = IF ok THEN failed ELSE "forward"
        /\ fault' = (fault \/ ret = 0 - 1)
        /\ ppc' = Goto("forward", ok)
    /\ stages' = Append(stages, "forward")
    /\ UNCHANGED <<wire, ci_request, ci_host_name, ci_clean_host_name,
                   ci_host_port, ci_filter_content, owned, client_socket,
                   connect_calls, nrelease,
                   checked_ip, is_filtered, relayVars>>

\* proxyServer.h: the size of get_response_from_destination's buffer.
BUFFER_SIZE == 4096

\* A variant of the write loop that starts again at the head of the buffer.
unwritten_from_start(buf, written) == buf

\* request + total_written_bytes: the bytes of the buffer not yet written.
unwritten(buf, written) == SubSeq(buf, written + 1, Len(buf))

\* A thread_function that writes the 500 response whenever the relay has
\* returned, whatever it returned.
RelayReturns_always_reports(ok) ==
    /\ responses' = send_error_message(ERROR_500_INTERNAL, responses)
    /\ failed' = IF ok THEN failed ELSE "relay"
    /\ destination_server_sd' = "closed"
    /\ ppc' = Goto("relay", ok)

\* thread_function after get_response_from_destination returned: line 765
\* when it failed, line 768, then the finish label.
RelayReturns(ok) ==
    /\ responses' = IF ok THEN responses
                    ELSE send_error_message(ERROR_500_INTERNAL, responses)
    /\ failed' = IF ok THEN failed ELSE "relay"
    /\ destination_server_sd' = "closed"
    /\ ppc' = Goto("relay", ok)

\* The relay stage is recorded when its first read is issued.
RelayStage ==
    IF stages[Len(stages)] = "relay" THEN stages ELSE Append(stages, "relay")

\* Line 693-701 of get_response_from_destination: one read from the
\* destination.  It fails, or returns up to BUFFER_SIZE of the bytes still
\* to come, or returns 0 once the destination has sent everything and closed.
P_RelayRead ==
    /\ ppc = "relay"
    /\ stages' = RelayStage
    /\ \/ \* read_bytes < 0
          /\ RelayReturns(FALSE)
          /\ relay_failures' = relay_failures + 1
          /\ fault' = TRUE
          /\ UNCHANGED <<dest_pos, buffer, total_written_bytes>>
       \/ \* read_bytes == 0
          /\ dest_pos = Len(dest_stream)
          /\ RelayReturns(TRUE)
          /\ UNCHANGED <<dest_pos, buffer, total_written_bytes,
                         relay_failures, fault>>
       \/ \* read_bytes > 0
          \E read_bytes \in 1..BUFFER_SIZE :
            /\ read_bytes <= Len(dest_stream) - dest_pos
            /\ buffer' = SubSeq(dest_stream, dest_pos + 1, dest_pos + read_bytes)
            /\ dest_pos' = dest_pos + read_bytes
            /\ total_written_bytes' = 0
            /\ ppc' = "relay_write"
            /\ UNCHANGED <<responses, failed, destination_server_sd,
                           relay_failures, fault>>
    /\ UNCHANGED <<wire, ci_request, ci_host_name, ci_clean_host_name,
                   ci_host_port, ci_filter_content, owned, client_socket,
                   connect_calls, forwarded, nrelease,
                   checked_ip, is_filtered, dest_stream, client_out>>

\* Line 704-710 with write_to_socket_unsigned (777-796): one write of the
\* loop.  write() takes some of the bytes not yet written, or fails; the
\* helper returns when all are written, or -1 at a failure, and line 704
\* compares that result, as a size_t, with read_bytes.
P_RelayWrite ==
    /\ ppc = "relay_write"
    /\ \/ \* wrote_bytes >= 0
          \E wrote_bytes \in 1..Len(buffer) :
            LET rest == unwritten(buffer, total_written_bytes)
                total == total_written_bytes + wrote_bytes
            IN /\ wrote_bytes <= Len(rest)
               /\ client_out' = client_out \o SubSeq(rest, 1, wrote_bytes)
               /\ total_written_bytes' = total
               /\ IF total < Len(buffer)
                  THEN /\ ppc' = "relay_write"
                       /\ UNCHANGED <<responses, failed, destination_server_sd>>
                  ELSE IF size_t_less(total, Len(buffer))
                  THEN RelayReturns(FALSE)
                  ELSE /\ ppc' = "relay"
                       /\ UNCHANGED <<responses, failed, destination_server_sd>>
               /\ UNCHANGED <<relay_failures, fault>>
       \/ \* wrote_bytes < 0: the helper returns (size_t) -1
          /\ relay_failures' = relay_failures + 1
          /\ fault' = TRUE
          /\ IF size_t_less(-1, Len(buffer))
             THEN RelayReturns(FALSE)
             ELSE /\ ppc' = "relay"
                  /\ UNCHANGED <<responses, failed, destination_server_sd>>
          /\ UNCHANGED <<client_out, total_written_bytes>>
    /\ UNCHANGED <<wire, ci_request, ci_host_name, ci_clean_host_name,
                   ci_host_port, ci_filter_content, owned, client_socket,
                   connect_calls, forwarded, nrelease, stages,
                   checked_ip, is_filtered, dest_stream, dest_pos, buffer>>

\* Line 771-773: the finish label.
P_Finish ==
    /\ ppc = "finish"
    /\ LET d == destroy_communication_info(owned, ci_request, ci_host_name,
                                           ci_clean_host_name)
       IN /\ owned' = d.owned
          /\ client_socket' = d.client_socket
    /\ nrelease' = nrelease + 1
    /\ stages' = Append(stages, "teardown")
    /\ ppc' = "done"
    /\ UNCHANGED <<wire, ci_request, ci_host_name, ci_clean_host_name,
                   ci_host_port, ci_filter_content, destination_server_sd,
                   responses, failed, connect_calls, forwarded, fault,
                   checked_ip, is_filtered, relayVars>>

(***************************************************************************)
(* The two specifications: the pool with its clients, and one connection   *)
(* through thread_function.                                                *)
(***************************************************************************)
(***************************************************************************)
(* Two workers tokenizing their filter copies.  Each connection has its    *)
(* own copy of the file (main, line 968) and is_filtered_host copies it    *)
(* again (line 406), but strtok keeps its position in one static pointer   *)
(* that all threads share.  A position is a buffer and a line number; a    *)
(* position past the last line is the end of the buffer.                   *)
(***************************************************************************)
\* The two workers, and the content_copy buffer of each.
TokWorkers == {1, 2}

\* A NULL line.
NoLine == [buf |-> 0, pos |-> 0]

\* Line k of worker w's copy.
LineOf(w, k) == [buf |-> w, pos |-> k]

\* strtok(NULL, "\r\n") called by worker w: the token at the shared save
\* pointer, which moves past it; NULL at the end of that buffer.
strtok_next(w) ==
    IF olds.pos <= nlines
    THEN [line |-> olds, save |-> [olds EXCEPT !.pos = olds.pos + 1]]
    ELSE [line |-> NoLine, save |-> olds]

\* What that call may return: when the save pointer points into a buffer
\* that has been freed the read is undefined, and the call may find the old
\* bytes or none.
strtok_outcomes(w) ==
    IF olds.buf \in tk_freed
    THEN {strtok_next(w), [line |-> NoLine, save |-> olds]}
    ELSE {strtok_next(w)}

\* No worker is in the filter.
TokIdle ==
    /\ nlines = 0
    /\ olds = NoLine
    /\ tk_pc = [w \in TokWorkers |-> "done"]
    /\ tk_line = [w \in TokWorkers |-> NoLine]
    /\ tk_seen = [w \in TokWorkers |-> <<>>]
    /\ tk_hit = [w \in TokWorkers |-> FALSE]
    /\ tk_freed = {}
    /\ tk_uaf = FALSE

\* Both workers are about to tokenize a copy of the same file.
TokInit ==
    /\ nlines \in 1..MaxLines
    /\ olds = NoLine
    /\ tk_pc = [w \in TokWorkers |-> "start"]
    /\ tk_line = [w \in TokWorkers |-> NoLine]
    /\ tk_seen = [w \in TokWorkers |-> <<>>]
    /\ tk_hit = [w \in TokWorkers |-> FALSE]
    /\ tk_freed = {}
    /\ tk_uaf = FALSE

\* Line 406-415: strdup, then strtok(content_copy, "\r\n"): the first line
\* of the worker's own copy; the save pointer now points into that copy.
T_First(w) ==
    /\ tk_pc[w] = "start"
    /\ tk_line' = [tk_line EXCEPT ![w] = LineOf(w, 1)]
    /\ olds' = LineOf(w, 2)
    /\ tk_pc' = [tk_pc EXCEPT ![w] = "loop"]
    /\ UNCHANGED <<nlines, tk_seen, tk_hit, tk_freed, tk_uaf>>

\* Line 417-450: the loop body on a line: it matches and the loop breaks,
\* or it does not and strtok(NULL, "\r\n") gives the next line.
T_Visit(w) ==
    /\ tk_pc[w] = "loop"
    /\ tk_line[w] # NoLine
    /\ tk_seen' = [tk_seen EXCEPT ![w] = Append(@, tk_line[w])]
    /\ \/ /\ tk_hit' = [tk_hit EXCEPT ![w] = TRUE]
          /\ tk_pc' = [tk_pc EXCEPT ![w] = "free"]
          /\ UNCHANGED <<olds, tk_line, tk_uaf>>
       \/ \E r \in strtok_outcomes(w) :
          /\ tk_line' = [tk_line EXCEPT ![w] = r.line]
          /\ olds' = r.save
          /\ tk_uaf' = (tk_uaf \/ olds.buf \in tk_freed)
          /\ UNCHANGED <<tk_hit, tk_pc>>
    /\ UNCHANGED <<nlines, tk_freed>>

\* Line 417: line == NULL ends the loop.
T_End(w) ==
    /\ tk_pc[w] = "loop"
    /\ tk_line[w] = NoLine
    /\ tk_pc' = [tk_pc EXCEPT ![w] = "free"]
    /\ UNCHANGED <<nlines, olds, tk_line, tk_seen, tk_hit, tk_freed, tk_uaf>>

\* Line 452-454: free(content_copy) and return.
T_Free(w) ==
    /\ tk_pc[w] = "free"
    /\ tk_freed' = tk_freed \cup {w}
    /\ tk_pc' = [tk_pc EXCEPT ![w] = "done"]
    /\ UNCHANGED <<nlines, olds, tk_line, tk_seen, tk_hit, tk_uaf>>

(***************************************************************************)
(* read_from_client_socket, lines 544-605, and its call at lines 722-727.  *)
(***************************************************************************)
\* A request line longer than the initial buffer: BUFFER_SIZE bytes, then
\* the end of the headers.
LongWire == [i \in 1..BUFFER_SIZE |-> "x"] \o <<CRLF, CRLF>>

\* What a client may send: nothing, text without the end-of-headers marker,
\* text with it, with a body behind it, and a request that outgrows the
\* buffer.
ReadWires ==
    { <<>>,
      <<"a">>,
      <<"a", CRLF>>,
      <<"a", CRLF, "b", CRLF>>,
      <<CRLF, CRLF>>,
      <<"a", CRLF, CRLF>>,
      <<"a", CRLF, "b", CRLF, CRLF>>,
      <<"a", CRLF, CRLF, "b">>,
      <<"a", CRLF, CRLF, "b", CRLF, CRLF>>,
      LongWire }

\* The counts a read() may return when avail bytes have arrived and count
\* bytes are asked for: one byte, two, or all there is room for.
ReadCounts(avail, count) ==
    LET most == IF avail < count THEN avail ELSE count
    IN {k \in {1, 2, most} : k <= most}

\* Line 567: the buffer must grow before the next read.
needs_growth(total_bytes_read, buffer_size) ==
    total_bytes_read >= buffer_size - 1

\* Lines 569: the size after the growth test.
grown_size(total_bytes_read, buffer_size) ==
    IF needs_growth(total_bytes_read, buffer_size)
    THEN 2 * buffer_size ELSE buffer_size

\* Line 581: read() stores its bytes at buffer + total_bytes_read.
store_at_start(buf, total_bytes_read, data) == data
store_at(buf, total_bytes_read, data) ==
    SubSeq(buf, 1, total_bytes_read) \o data

\* No call of read_from_client_socket is being followed.
ReadIdle ==
    /\ r_pc = "idle"
    /\ r_wire = <<>>
    /\ r_closes = FALSE
    /\ r_pos = 0
    /\ r_buffer = <<>>
    /\ r_buffer_size = 0
    /\ r_allocated = FALSE
    /\ r_cause = "none"
    /\ r_ret = NullStr
    /\ r_responses = <<>>

\* Line 546: read_from_client_socket has been called.
ReadInit ==
    /\ r_pc = "alloc"
    /\ r_wire \in ReadWires
    /\ r_closes \in BOOLEAN
    /\ r_pos = 0
    /\ r_buffer = <<>>
    /\ r_buffer_size = BUFFER_SIZE
    /\ r_allocated = FALSE
    /\ r_cause = "none"
    /\ r_ret = NullStr
    /\ r_responses = <<>>

\* The function gives up: the buffer, if any, is freed and NULL is returned.
ReadGivesUp(cause) ==
    /\ r_cause' = cause
    /\ r_allocated' = FALSE
    /\ r_ret' = NullStr
    /\ r_pc' = "returned"

\* Lines 550-555: malloc of the initial buffer.
R_Alloc ==
    /\ r_pc = "alloc"
    /\ \E ok \in BOOLEAN :
         IF ok
         THEN /\ r_allocated' = TRUE
              /\ r_pc' = "sockopt"
              /\ UNCHANGED <<r_cause, r_ret>>
         ELSE ReadGivesUp("malloc")
    /\ UNCHANGED <<r_wire, r_closes, r_pos, r_buffer, r_buffer_size,
                   r_responses>>

\* Lines 558-563: setsockopt of the receive timeout.
R_SetTimeout ==
    /\ r_pc = "sockopt"
    /\ \E ok \in BOOLEAN :
         IF ok
         THEN /\ r_pc' = "loop"
              /\ UNCHANGED <<r_allocated, r_cause, r_ret>>
         ELSE ReadGivesUp("setsockopt")
    /\ UNCHANGED <<r_wire, r_closes, r_pos, r_buffer, r_buffer_size,
                   r_responses>>

\* Lines 567-576: the buffer must grow and realloc fails.
R_GrowFails ==
    /\ r_pc = "loop"
    /\ needs_growth(Len(r_buffer), r_buffer_size)
    /\ ReadGivesUp("realloc")
    /\ r_buffer_size' = 2 * r_buffer_size
    /\ UNCHANGED <<r_wire, r_closes, r_pos, r_buffer, r_responses>>

\* Lines 567-592: one turn of the loop in which read() returns -1 (an error,
\* or the timeout of five seconds with nothing received).
R_ReadFails ==
    /\ r_pc = "loop"
    /\ ReadGivesUp("read")
    /\ r_buffer_size' = grown_size(Len(r_buffer), r_buffer_size)
    /\ UNCHANGED <<r_wire, r_closes, r_pos, r_buffer, r_responses>>

\* Lines 567-592: one turn of the loop in which read() returns 0: the client
\* has closed and everything it sent has been read.
R_ReadEof ==
    /\ r_pc = "loop"
    /\ r_closes
    /\ r_pos = Len(r_wire)
    /\ ReadGivesUp("eof")
    /\ r_buffer_size' = grown_size(Len(r_buffer), r_buffer_size)
    /\ UNCHANGED <<r_wire, r_closes, r_pos, r_buffer, r_responses>>

\* Lines 567-604: one turn of the loop in which read() delivers bytes: they
\* are stored behind those already there, and the function returns the
\* buffer when it holds "\r\n\r\n".
R_Read ==
    /\ r_pc = "loop"
    /\ LET total_bytes_read == Len(r_buffer)
           size == grown_size(total_bytes_read, r_buffer_size)
       IN \E bytes_read \in ReadCounts(Len(r_wire) - r_pos,
                                       size - total_bytes_read - 1) :
            LET data == SubSeq(r_wire, r_pos + 1, r_pos + bytes_read)
                buf == store_at(r_buffer, total_bytes_read, data)
            IN /\ r_buffer_size' = size
               /\ r_pos' = r_pos + bytes_read
               /\ r_buffer' = buf
               /\ IF strstr(buf, <<CRLF, CRLF>>) # 0
                  THEN r_pc' = "returned" /\ r_ret' = Str(buf)
                  ELSE r_pc' = "loop" /\ r_ret' = r_ret
    /\ UNCHANGED <<r_wire, r_closes, r_allocated, r_cause, r_responses>>

\* Lines 722-727 of thread_function: a NULL request is answered with a 500.
R_Caller ==
    /\ r_pc = "returned"
    /\ r_responses' = IF r_ret.null
                      THEN send_error_message(ERROR_500_INTERNAL, r_responses)
                      ELSE r_responses
    /\ r_pc' = "done"
    /\ UNCHANGED <<r_wire, r_closes, r_pos, r_buffer, r_buffer_size,
                   r_allocated, r_cause, r_ret>>

(***************************************************************************)
(* write_to_socket, lines 799-821 (write_to_socket_unsigned, lines 777-796, *)
(* is the same loop over unsigned char).                                   *)
(***************************************************************************)
\* The buffers handed to write_to_socket: up to MaxStream bytes.
WriteBytes == 1..3
WriteRequests == UNION {[1..n -> WriteBytes] : n \in 0..MaxStream}

\* No call of write_to_socket is being followed.
WriteIdle ==
    /\ w_pc = "idle"
    /\ w_request = <<>>
    /\ w_total_written_bytes = 0
    /\ w_sent = <<>>
    /\ w_calls = 0
    /\ w_errors = 0
    /\ w_ret = 0

\* Line 801: write_to_socket has been called with data_length = the length
\* of the buffer.
WriteInit ==
    /\ w_pc = "write"
    /\ w_request \in WriteRequests
    /\ w_total_written_bytes = 0
    /\ w_sent = <<>>
    /\ w_calls = 0
    /\ w_errors = 0
    /\ w_ret = 0

\* Line 818: the condition of the do-while loop.
more_to_write_never(total, data_length) == FALSE
more_to_write(total, data_length) == total < data_length

\* Lines 807-818: one turn of the loop with a write() that takes wrote_bytes
\* of the bytes offered (at least one when any is offered), then the loop
\* condition, and line 820 when it is false.
WS_Write ==
    /\ w_pc = "write"
    /\ LET data_length == Len(w_request)
           offered == unwritten(w_request, w_total_written_bytes)
       IN \E wrote_bytes \in 0..Len(offered) :
            /\ (wrote_bytes = 0) => (Len(offered) = 0)
            /\ w_sent' = w_sent \o SubSeq(offered, 1, wrote_bytes)
            /\ w_total_written_bytes' = w_total_written_bytes + wrote_bytes
            /\ IF more_to_write(w_total_written_bytes + wrote_bytes, data_length)
               THEN w_pc' = "write" /\ w_ret' = w_ret
               ELSE /\ w_pc' = "returned"
                    /\ w_ret' = w_total_written_bytes + wrote_bytes
    /\ w_calls' = w_calls + 1
    /\ UNCHANGED <<w_request, w_errors>>

\* Lines 809-813: write() returns a negative value: perror and return -1.
WS_Fail ==
    /\ w_pc = "write"
    /\ w_calls' = w_calls + 1
    /\ w_errors' = w_errors + 1
    /\ w_pc' = "returned"
    /\ w_ret' = 0 - 1
    /\ UNCHANGED <<w_request, w_total_written_bytes, w_sent>>

(***************************************************************************)
(* send_error_message, lines 137-200: the text of an error response.       *)
(* Texts are strings of characters here; their lengths are byte counts.    *)
(***************************************************************************)
\* The values of ErrorType, and one value outside it.
ErrorTypes == {ERROR_400_BAD_REQUEST, ERROR_404_NOT_FOUND,
               ERROR_501_NOT_IMPLEMENTED, ERROR_403_FORBIDDEN,
               ERROR_500_INTERNAL}
UnknownError == 0

\* Lines 141-145: what strftime may write for "%a, %d %b %Y %H:%M:%S GMT".
Dates == {"Thu, 01 Jan 1970 00:00:00 GMT", "Fri, 06 Nov 2026 14:00:00 GMT"}

\* Lines 151-174: the switch on error.
title(error) ==
    CASE error = ERROR_500_INTERNAL -> "500 Internal Server Error"
      [] error = ERROR_400_BAD_REQUEST -> "400 Bad Request"
      [] error = ERROR_404_NOT_FOUND -> "404 Not Found"
      [] error = ERROR_501_NOT_IMPLEMENTED -> "501 Not supported"
      [] error = ERROR_403_FORBIDDEN -> "403 Forbidden"

description(error) ==
    CASE error = ERROR_500_INTERNAL -> "Some server side error."
      [] error = ERROR_400_BAD_REQUEST -> "Bad Request."
      [] error = ERROR_404_NOT_FOUND -> "File not found."
      [] error = ERROR_501_NOT_IMPLEMENTED -> "Method is not supported."
      [] error = ERROR_403_FORBIDDEN -> "Access denied."

\* snprintf(buf, size, ...): the formatted text, cut to size - 1 characters.
snprintf(size, text) ==
    IF Len(text) < size THEN text ELSE SubSeq(text, 1, size - 1)

\* The conversion %zu: the decimal digits of a number.
RECURSIVE zu(_)
zu(n) ==
    LET digit == SubSeq("0123456789", (n % 10) + 1, (n % 10) + 1)
    IN IF n < 10 THEN digit ELSE zu(n \div 10) \o digit

\* Lines 177-180: the HTML body.
error_body(error) ==
    snprintf(BUFFER_SIZE,
             "<HTML><HEAD><TITLE>" \o title(error) \o "</TITLE></HEAD>\r\n"
             \o "<BODY><H4>" \o title(error) \o "</H4>\r\n"
             \o description(error) \o "\r\n"
             \o "</BODY></HTML>")

\* Lines 182-192: the status line and the headers; body_length is
\* strlen(body).
error_header_counts_title(error, date, body_length) ==
    snprintf(BUFFER_SIZE,
             "HTTP/1.1 " \o title(error) \o "\r\n"
             \o "Server: webserver/1.0\r\n"
             \o "Date: " \o date \o "\r\n"
             \o "Content-Type: text/html\r\n"
             \o "Content-Length: " \o zu(Len(title(error))) \o "\r\n"
             \o "Connection: close\r\n\r\n")
error_header(error, date, body_length) ==
    snprintf(BUFFER_SIZE,
             "HTTP/1.1 " \o title(error) \o "\r\n"
             \o "Server: webserver/1.0\r\n"
             \o "Date: " \o date \o "\r\n"
             \o "Content-Type: text/html\r\n"
             \o "Content-Length: " \o zu(body_length) \o "\r\n"
             \o "Connection: close\r\n\r\n")

\* Lines 195-196: full_message.
full_message(error, date) ==
    LET body == error_body(error)
    IN snprintf(2 * BUFFER_SIZE,
                error_header(error, date, Len(body)) \o body)

\* The counts a write() of n characters may return: one, two, or all.
WriteCounts(n) == {k \in {1, 2, n} : k <= n}

\* No call of send_error_message is being followed.
ErrIdle ==
    /\ e_pc = "idle"
    /\ e_error = UnknownError
    /\ e_date = ""
    /\ e_message = ""
    /\ e_sent = ""
    /\ e_failed = FALSE

\* Line 137: send_error_message has been called.
ErrInit ==
    /\ e_pc = "compose"
    /\ e_error \in ErrorTypes \cup {UnknownError}
    /\ e_date \in Dates
    /\ e_message = ""
    /\ e_sent = ""
    /\ e_failed = FALSE

\* Lines 139-196: the message is composed; an error outside ErrorType
\* returns at line 173 with nothing written.
E_Compose ==
    /\ e_pc = "compose"
    /\ IF e_error \in ErrorTypes
       THEN /\ e_message' = full_message(e_error, e_date)
            /\ e_pc' = "write"
       ELSE /\ e_message' = e_message
            /\ e_pc' = "done"
    /\ UNCHANGED <<e_error, e_date, e_sent, e_failed>>

\* Line 199, write_to_socket (805-820): one write() that takes some of the
\* characters not yet written.
E_Write ==
    /\ e_pc = "write"
    /\ LET rest == unwritten(e_message, Len(e_sent))
       IN \E wrote_bytes \in WriteCounts(Len(rest)) :
            /\ e_sent' = e_sent \o SubSeq(rest, 1, wrote_bytes)
            /\ e_pc' = IF more_to_write(Len(e_sent) + wrote_bytes,
                                        Len(e_message))
                       THEN "write" ELSE "done"
    /\ UNCHANGED <<e_error, e_date, e_message, e_failed>>

\* Line 199, write_to_socket (809-813): a write() fails; send_error_message
\* ignores the result and returns.
E_WriteFails ==
    /\ e_pc = "write"
    /\ e_failed' = TRUE
    /\ e_pc' = "done"
    /\ UNCHANGED <<e_error, e_date, e_message, e_sent>>

(***************************************************************************)
(* create_threadpool, lines 226-283, and the workers it starts.            *)
(***************************************************************************)
\* The workers a call of create_threadpool can start.
Created == 1..MAXT_IN_POOL

\* The arguments of the call: the legal sizes and their neighbours.
CreateArgs == (0 - 1)..(MAXT_IN_POOL + 1)

\* Line 228, negated: the size is accepted.
valid_num_threads_accepts_zero(n) == ~(n > MAXT_IN_POOL \/ n < 0)
valid_num_threads(n) == ~(n > MAXT_IN_POOL \/ n < 1)

\* The workers that have been started: tp->threads[0 .. i-1].
StartedWorkers == {w \in DOMAIN wpc : wpc[w] # "none"}

\* No call of create_threadpool is being followed.
CreateIdle ==
    /\ cpc = "idle"
    /\ cn = 0
    /\ ci = 0
    /\ cj = 0
    /\ cancel_req = {}
    /\ cresult = "none"

\* create_threadpool is about to be called.  The block that malloc will hand
\* out at line 234 holds arbitrary values: the fields are indeterminate until
\* the code assigns them.
CreateInit ==
    /\ cpc = "call"
    /\ cn \in CreateArgs
    /\ ci = 0
    /\ cj = 0
    /\ cancel_req = {}
    /\ cresult = "none"
    /\ num_threads \in {0, MAXT_IN_POOL + 2}
    /\ qsize \in {0, 1}
    /\ qhead \in {NULL, 1}
    /\ qtail \in {NULL, 1}
    /\ shutdown \in {0, 1}
    /\ dont_accept \in {0, 1}
    /\ qlock = NoThread
    /\ next = [n \in Nodes |-> NULL]
    /\ work_arg = [n \in Nodes |-> NULL]
    /\ wpc = [w \in Created |-> "none"]
    /\ work = [w \in Created |-> NULL]
    /\ dpc = "idle"
    /\ darg = NULL
    /\ ncalls = 0
    /\ nalloc = 0
    /\ xpc = "idle"
    /\ xjoin = 0
    /\ queued_at_destroy = 0
    /\ accepted = {}
    /\ dropped = {}
    /\ nomem = {}
    /\ started = [a \in Args |-> <<>>]
    /\ finished = [a \in Args |-> 0]

\* The pool variables that create_threadpool and the workers it starts
\* never touch.
createFrame == <<next, work_arg, work, dpc, darg, ncalls, nalloc, xpc, xjoin,
                 queued_at_destroy, accepted, dropped, nomem, started,
                 finished>>

\* Lines 228-232: a size out of range returns NULL before anything is
\* allocated.
C_Check ==
    /\ cpc = "call"
    /\ IF valid_num_threads(cn)
       THEN cpc' = "alloc" /\ cresult' = cresult
       ELSE cpc' = "returned" /\ cresult' = "NULL"
    /\ UNCHANGED <<cn, ci, cj, cancel_req>>
    /\ UNCHANGED <<num_threads, qsize, qhead, qtail, shutdown, dont_accept,
                   qlock, wpc, createFrame>>

\* Lines 234-264: the two mallocs and the three initialisations, each of
\* which ends the process when it fails, and the assignments to the fields.
C_Alloc ==
    /\ cpc = "alloc"
    /\ \E ok \in BOOLEAN :
         IF ok
         THEN /\ num_threads' = cn
              /\ qsize' = 0
              /\ qhead' = NULL
              /\ qtail' = NULL
              /\ qlock' = NoThread
              /\ shutdown' = 0
              /\ dont_accept' = 0
              /\ cpc' = "spawn"
              /\ cresult' = cresult
         ELSE /\ cpc' = "exited"
              /\ cresult' = "exit"
              /\ UNCHANGED <<num_threads, qsize, qhead, qtail, qlock,
                             shutdown, dont_accept>>
    /\ ci' = 0
    /\ UNCHANGED <<cn, cj, cancel_req, wpc, createFrame>>

\* Lines 266-267: one pthread_create.  When it succeeds the new worker
\* stands at the top of do_work; when it fails the loop of line 270 starts.
C_Spawn ==
    /\ cpc = "spawn"
    /\ ci < cn
    /\ \E ok \in BOOLEAN :
         IF ok
         THEN /\ wpc' = [wpc EXCEPT ![ci + 1] = "lock"]
              /\ ci' = ci + 1
              /\ cpc' = cpc
         ELSE /\ cpc' = "cancel"
              /\ UNCHANGED <<wpc, ci>>
    /\ cj' = 0
    /\ UNCHANGED <<cn, cancel_req, cresult>>
    /\ UNCHANGED <<num_threads, qsize, qhead, qtail, shutdown, dont_accept,
                   qlock, createFrame>>

\* Line 282: every worker was started.
C_Return ==
    /\ cpc = "spawn"
    /\ ci = cn
    /\ cpc' = "returned"
    /\ cresult' = "tp"
    /\ UNCHANGED <<cn, ci, cj, cancel_req>>
    /\ UNCHANGED <<num_threads, qsize, qhead, qtail, shutdown, dont_accept,
                   qlock, wpc, createFrame>>

\* Line 272: pthread_cancel(tp->threads[j]) leaves a request with the worker.
C_Cancel ==
    /\ cpc = "cancel"
    /\ cj < ci
    /\ cancel_req' = cancel_req \cup {cj + 1}
    /\ cpc' = "join"
    /\ UNCHANGED <<cn, ci, cj, cresult>>
    /\ UNCHANGED <<num_threads, qsize, qhead, qtail, shutdown, dont_accept,
                   qlock, wpc, createFrame>>

\* Line 273: pthread_join(tp->threads[j]) returns once the worker has
\* terminated.
C_Join ==
    /\ cpc = "join"
    /\ wpc[cj + 1] = "cancelled"
    /\ cj' = cj + 1
    /\ cpc' = "cancel"
    /\ UNCHANGED <<cn, ci, cancel_req, cresult>>
    /\ UNCHANGED <<num_threads, qsize, qhead, qtail, shutdown, dont_accept,
                   qlock, wpc, createFrame>>

\* Lines 276-279: the loop of line 270 is over: free and exit(EXIT_FAILURE).
C_Exit ==
    /\ cpc = "cancel"
    /\ cj = ci
    /\ cpc' = "exited"
    /\ cresult' = "exit"
    /\ UNCHANGED <<cn, ci, cj, cancel_req>>
    /\ UNCHANGED <<num_threads, qsize, qhead, qtail, shutdown, dont_accept,
                   qlock, wpc, createFrame>>

\* Line 140 under a pending cancel.  The workers run with the default
\* deferred cancellation and pthread_cond_wait is the one cancellation point
\* of do_work's loop (pthread_mutex_lock is none): the request is acted upon
\* by a worker inside the wait.
W_ActOnCancel(w) ==
    /\ wpc[w] = "wait"
    /\ w \in cancel_req
    /\ wpc' = [wpc EXCEPT ![w] = "unwind"]
    /\ UNCHANGED <<cn, ci, cj, cancel_req, cresult, cpc>>
    /\ UNCHANGED <<num_threads, qsize, qhead, qtail, shutdown, dont_accept,
                   qlock, createFrame>>

\* A cancelled condition wait re-acquires the mutex before the thread's
\* cleanup handlers run.  do_work installs none, so the worker terminates as
\* the owner of qlock.
W_CancelUnwind(w) ==
    /\ wpc[w] = "unwind"
    /\ qlock = NoThread
    /\ qlock' = w
    /\ wpc' = [wpc EXCEPT ![w] = "cancelled"]
    /\ UNCHANGED <<cn, ci, cj, cancel_req, cresult, cpc>>
    /\ UNCHANGED <<num_threads, qsize, qhead, qtail, shutdown, dont_accept,
                   createFrame>>

\* The steps of the caller of create_threadpool.
CreatorStep ==
    \/ C_Check /\ UNCHANGED <<pipeVars, relayVars, tokVars, writeVars, readVars, errVars, faultVars, resolveVars, mainVars, connVars, growVars>>
    \/ C_Alloc /\ UNCHANGED <<pipeVars, relayVars, tokVars, writeVars, readVars, errVars, faultVars, resolveVars, mainVars, connVars, growVars>>
    \/ C_Spawn /\ UNCHANGED <<pipeVars, relayVars, tokVars, writeVars, readVars, errVars, faultVars, resolveVars, mainVars, connVars, growVars>>
    \/ C_Return /\ UNCHANGED <<pipeVars, relayVars, tokVars, writeVars, readVars, errVars, faultVars, resolveVars, mainVars, connVars, growVars>>
    \/ C_Cancel /\ UNCHANGED <<pipeVars, relayVars, tokVars, writeVars, readVars, errVars, faultVars, resolveVars, mainVars, connVars, growVars>>
    \/ C_Join /\ UNCHANGED <<pipeVars, relayVars, tokVars, writeVars, readVars, errVars, faultVars, resolveVars, mainVars, connVars, growVars>>
    \/ C_Exit /\ UNCHANGED <<pipeVars, relayVars, tokVars, writeVars, readVars, errVars, faultVars, resolveVars, mainVars, connVars, growVars>>

\* exit() at lines 238, 248, 261 and 279 ends the process and its threads.
ProcessRuns == cpc # "exited"

\* The steps of a started worker while create_threadpool runs: the queue is
\* empty and shutdown is clear, so do_work's loop never gets past its wait.
\* The process ends with exit(): no worker runs on after it.
CreatedWorkerStep ==
    \/ \E w \in Created : ProcessRuns /\ W_Lock(w) /\ UNCHANGED <<pipeVars, relayVars, tokVars, createVars, writeVars, readVars, errVars, faultVars, resolveVars, mainVars, connVars, growVars>>
    \/ \E w \in Created : ProcessRuns /\ W_Wait(w) /\ UNCHANGED <<pipeVars, relayVars, tokVars, createVars, writeVars, readVars, errVars, faultVars, resolveVars, mainVars, connVars, growVars>>
    \/ \E w \in Created : ProcessRuns /\ W_Spurious(w) /\ UNCHANGED <<pipeVars, relayVars, tokVars, createVars, writeVars, readVars, errVars, faultVars, resolveVars, mainVars, connVars, growVars>>
    \/ \E w \in Created : ProcessRuns /\ W_Reacquire(w) /\ UNCHANGED <<pipeVars, relayVars, tokVars, createVars, writeVars, readVars, errVars, faultVars, resolveVars, mainVars, connVars, growVars>>
    \/ \E w \in Created : ProcessRuns /\ W_ActOnCancel(w) /\ UNCHANGED <<pipeVars, relayVars, tokVars, writeVars, readVars, errVars, faultVars, resolveVars, mainVars, connVars, growVars>>
    \/ \E w \in Created : ProcessRuns /\ W_CancelUnwind(w) /\ UNCHANGED <<pipeVars, relayVars, tokVars, writeVars, readVars, errVars, faultVars, resolveVars, mainVars, connVars, growVars>>

(***************************************************************************)
(* Two workers resolving the hosts of their connections.  gethostbyname    *)
(* returns a pointer to one static struct hostent of the process; every    *)
(* call overwrites it, and the callers read h_addr_list[0] through the     *)
(* pointer afterwards, without any lock.                                   *)
(***************************************************************************)
ResolveWorkers == {1, 2}

\* The hosts of the two connections, and the resolver's answer for each
\* name, the same at every lookup: a and c resolve, b does not.
ResolveHosts == {<<"a">>, <<"b">>, <<"c">>}
StableDns(name) ==
    IF name = <<"a">> THEN IpA1 ELSE IF name = <<"c">> THEN IpA2 ELSE NoAddr

\* The filter files of the two connections.
ResolvePolicies ==
    { <<>>,
      <<CidrLine(<<10, 0, 0, 0>>, "8")>>,
      <<CidrLine(<<192, 168, 1, 0>>, "24"), NameLine(<<"b">>)>> }

\* No worker is resolving.
ResolveIdle ==
    /\ hostent = NoAddr
    /\ g_pc = [w \in ResolveWorkers |-> "done"]
    /\ g_host = [w \in ResolveWorkers |-> <<>>]
    /\ g_policy = [w \in ResolveWorkers |-> <<>>]
    /\ g_checked = [w \in ResolveWorkers |-> NoAddr]
    /\ g_result = [w \in ResolveWorkers |-> 0]
    /\ g_connected = [w \in ResolveWorkers |-> NoAddr]

\* Both workers are about to call is_filtered_host for their connection.
ResolveInit ==
    /\ hostent = NoAddr
    /\ g_pc = [w \in ResolveWorkers |-> "filter"]
    /\ g_host \in [ResolveWorkers -> ResolveHosts]
    /\ g_policy \in [ResolveWorkers -> ResolvePolicies]
    /\ g_checked = [w \in ResolveWorkers |-> NoAddr]
    /\ g_result = [w \in ResolveWorkers |-> 0]
    /\ g_connected = [w \in ResolveWorkers |-> NoAddr]

\* gethostbyname(name): NULL when the name does not resolve, else the
\* static result, which now holds the answer.
gethostbyname(name, static) ==
    IF StableDns(name) = NoAddr
    THEN [ret |-> FALSE, static |-> static]
    ELSE [ret |-> TRUE, static |-> StableDns(name)]

\* get_host_IP, lines 350-360: the lookup of the cleaned host; a name that
\* does not resolve makes is_filtered_host return -1.
G_FilterLookup(w) ==
    /\ g_pc[w] = "filter"
    /\ LET he == gethostbyname(get_clean_host(g_host[w], TRUE).s, hostent)
       IN /\ hostent' = he.static
          /\ g_pc' = [g_pc EXCEPT ![w] = IF he.ret THEN "filter_read" ELSE "done"]
          /\ g_result' = [g_result EXCEPT ![w] = IF he.ret THEN @ ELSE -1]
    /\ UNCHANGED <<g_host, g_policy, g_checked, g_connected>>

\* get_host_IP, lines 365-384, and is_filtered_host, lines 396-454: the
\* address is read through he and compared with the filter.
G_FilterRead(w) ==
    /\ g_pc[w] = "filter_read"
    /\ LET result == is_filtered_host(g_policy[w], g_host[w], hostent, TRUE)
       IN /\ g_checked' = [g_checked EXCEPT ![w] = hostent]
          /\ g_result' = [g_result EXCEPT ![w] = result]
          /\ g_pc' = [g_pc EXCEPT ![w] = IF result = 0 THEN "connect" ELSE "done"]
    /\ UNCHANGED <<hostent, g_host, g_policy, g_connected>>

\* set_destination_server_connection, lines 624-629: the second lookup.
G_ConnectLookup(w) ==
    /\ g_pc[w] = "connect"
    /\ LET server_info == gethostbyname(get_clean_host(g_host[w], TRUE).s, hostent)
       IN /\ hostent' = server_info.static
          /\ g_pc' = [g_pc EXCEPT ![w] =
                        IF server_info.ret THEN "connect_read" ELSE "done"]
    /\ UNCHANGED <<g_host, g_policy, g_checked, g_result, g_connected>>

\* set_destination_server_connection, lines 632-638: the address is read
\* through server_info and connected to.
G_ConnectRead(w) ==
    /\ g_pc[w] = "connect_read"
    /\ g_connected' = [g_connected EXCEPT ![w] = hostent]
    /\ g_pc' = [g_pc EXCEPT ![w] = "done"]
    /\ UNCHANGED <<hostent, g_host, g_policy, g_checked, g_result>>

(***************************************************************************)
(* main: the listener.  The pool exists (create_threadpool returned it)    *)
(* and the filter file has been read; main sets up the welcome socket,     *)
(* accepts and dispatches up to max_tasks connections, destroys the pool   *)
(* and exits.  The same thread makes the dispatch calls and then the       *)
(* destroy_threadpool call.  exit() ends every thread of the process.      *)
(***************************************************************************)
\* The descriptor socket() returns for the welcome socket.
WelcomeSocket == 3

\* set_my_server_configuration(server_info): the descriptor, or 0 when
\* socket, bind or listen fails.
set_my_server_configuration(socket_ok, bind_ok, listen_ok) ==
    IF ~socket_ok THEN 0
    ELSE IF ~bind_ok THEN 0
    ELSE IF ~listen_ok THEN 0
    ELSE WelcomeSocket

\* Line 940: main's test of the value it got.
server_setup_failed(fd) == fd = 0 - 1

\* main is not running (the pool is driven directly).
MainIdle ==
    /\ m_pc = "none"
    /\ max_tasks = 0
    /\ ws = 0 - 1
    /\ ws_listening = FALSE
    /\ m_i = 0
    /\ accept_calls = 0
    /\ m_ci = [made |-> 0, freed |-> 0]
    /\ exit_status = "none"

\* main at line 939, about to set up the welcome socket.
MainInit ==
    /\ m_pc = "config"
    /\ max_tasks \in 1..MaxItems
    /\ ws = 0 - 1
    /\ ws_listening = FALSE
    /\ m_i = 0
    /\ accept_calls = 0
    /\ m_ci = [made |-> 0, freed |-> 0]
    /\ exit_status = "none"

\* The process has not called exit().
MainRuns == exit_status = "none"

\* Lines 939-944: set_my_server_configuration, and exit(EXIT_FAILURE) when
\* main takes the value for a failure.
M_Configure ==
    /\ m_pc = "config"
    /\ \E socket_ok \in BOOLEAN, bind_ok \in BOOLEAN, listen_ok \in BOOLEAN :
        LET fd == set_my_server_configuration(socket_ok, bind_ok, listen_ok)
        IN /\ ws' = fd
           /\ ws_listening' = (socket_ok /\ bind_ok /\ listen_ok)
           /\ m_pc' = IF server_setup_failed(fd) THEN "exited" ELSE "loop"
           /\ exit_status' =
                IF server_setup_failed(fd) THEN "EXIT_FAILURE" ELSE "none"
    /\ UNCHANGED <<max_tasks, m_i, accept_calls, m_ci>>

\* Line 948: the loop condition i < max_tasks.
M_LoopTest ==
    /\ m_pc = "loop"
    /\ m_pc' = IF m_i < max_tasks THEN "accept" ELSE "close"
    /\ UNCHANGED <<max_tasks, ws, ws_listening, m_i, accept_calls, m_ci,
                   exit_status>>

\* Lines 950-955: malloc of the context fails: break.
M_NoContext ==
    /\ m_pc = "accept"
    /\ m_pc' = "close"
    /\ UNCHANGED <<max_tasks, ws, ws_listening, m_i, accept_calls, m_ci,
                   exit_status>>

\* Lines 950-966, accept fails (it always does on a descriptor that is no
\* listening socket): the context is freed, break.
M_AcceptFails ==
    /\ m_pc = "accept"
    /\ accept_calls' = accept_calls + 1
    /\ m_ci' = [made |-> m_ci.made + 1, freed |-> m_ci.freed + 1]
    /\ m_pc' = "close"
    /\ UNCHANGED <<max_tasks, ws, ws_listening, m_i, exit_status>>

\* Lines 950-968: a connection is accepted into a new context and the
\* filter text is copied into it.
M_Accept ==
    /\ m_pc = "accept"
    /\ ws_listening
    /\ accept_calls' = accept_calls + 1
    /\ m_ci' = [m_ci EXCEPT !.made = @ + 1]
    /\ m_pc' = "dispatch"
    /\ UNCHANGED <<max_tasks, ws, ws_listening, m_i, exit_status>>

\* Line 969: dispatch(tp, thread_function, ci) is called.
M_Dispatch ==
    /\ m_pc = "dispatch"
    /\ D_Call
    /\ m_pc' = "in_dispatch"
    /\ UNCHANGED <<max_tasks, ws, ws_listening, m_i, accept_calls, m_ci,
                   exit_status>>

\* Lines 969-970 and 948: dispatch has returned; i++.
M_Dispatched ==
    /\ m_pc = "in_dispatch"
    /\ dpc = "idle"
    /\ m_i' = m_i + 1
    /\ m_pc' = "loop"
    /\ UNCHANGED <<max_tasks, ws, ws_listening, accept_calls, m_ci,
                   exit_status>>

\* Line 972: close(ws).
M_Close ==
    /\ m_pc = "close"
    /\ ws_listening' = FALSE
    /\ m_pc' = "destroy"
    /\ UNCHANGED <<max_tasks, ws, m_i, accept_calls, m_ci, exit_status>>

\* Line 973: destroy_threadpool(tp) is called.
M_Destroy ==
    /\ m_pc = "destroy"
    /\ X_Call
    /\ m_pc' = "in_destroy"
    /\ UNCHANGED <<max_tasks, ws, ws_listening, m_i, accept_calls, m_ci,
                   exit_status>>

\* Lines 973-976: destroy_threadpool has returned; exit(EXIT_SUCCESS).
M_Exit ==
    /\ m_pc = "in_destroy"
    /\ xpc = "done"
    /\ m_pc' = "exited"
    /\ exit_status' = "EXIT_SUCCESS"
    /\ UNCHANGED <<max_tasks, ws, ws_listening, m_i, accept_calls, m_ci>>

(***************************************************************************)
(* The arithmetic of read_from_client_socket's loop by itself, for a       *)
(* client that keeps sending bytes and may never send the marker.          *)
(* buffer_size is an int: doubling it past INT_MAX is a signed overflow,   *)
(* whose outcome is not defined; a build either wraps the value or traps.  *)
(***************************************************************************)
\* The largest int.
INT_MAX == 2147483647

\* Line 569: buffer_size *= 2 overflows.
doubling_overflows(buffer_size) == buffer_size > INT_MAX \div 2

\* The value of an overflowing buffer_size *= 2 in a build that wraps:
\* 2 * buffer_size - 2^32, for a buffer_size above INT_MAX / 2.
wrapped_double(buffer_size) ==
    (buffer_size - (INT_MAX \div 2 + 1)) * 2 - INT_MAX - 1

\* The reads of a single byte the model follows.
MaxSmallReads == 3

\* What read() may deliver when asked for count bytes: everything asked for,
\* or a single byte.
GrowCounts(count) ==
    {k \in {1, count} : /\ 1 <= k
                        /\ k <= count
                        /\ (k = 1 /\ count > 1) => n_small < MaxSmallReads}

\* The loop is not being followed.
GrowIdle ==
    /\ n_pc = "idle"
    /\ n_buffer_size = 0
    /\ n_total_bytes_read = 0
    /\ n_count = 0
    /\ n_small = 0

\* Lines 546-565: the loop is entered with the initial buffer.
GrowInit ==
    /\ n_pc = "loop"
    /\ n_buffer_size = BUFFER_SIZE
    /\ n_total_bytes_read = 0
    /\ n_count = 0
    /\ n_small = 0

\* Lines 567-602: one turn of the loop in which read() delivers bytes; the
\* marker has arrived with them or not.
N_Read ==
    /\ n_pc = "loop"
    /\ ~(needs_growth(n_total_bytes_read, n_buffer_size)
            /\ doubling_overflows(n_buffer_size))
    /\ LET size == grown_size(n_total_bytes_read, n_buffer_size)
           count == size - n_total_bytes_read - 1
       IN \E bytes_read \in GrowCounts(count), found \in BOOLEAN :
            /\ n_buffer_size' = size
            /\ n_count' = count
            /\ n_total_bytes_read' = n_total_bytes_read + bytes_read
            /\ n_small' = IF bytes_read = 1 /\ count > 1
                          THEN n_small + 1 ELSE n_small
            /\ n_pc' = IF found THEN "returned" ELSE "loop"

\* Lines 567-591: one turn of the loop in which realloc fails, or read()
\* returns 0 or -1: NULL is returned.
N_GiveUp ==
    /\ n_pc = "loop"
    /\ ~(needs_growth(n_total_bytes_read, n_buffer_size)
            /\ doubling_overflows(n_buffer_size))
    /\ n_buffer_size' = grown_size(n_total_bytes_read, n_buffer_size)
    /\ n_pc' = "returned"
    /\ UNCHANGED <<n_total_bytes_read, n_count, n_small>>

\* Lines 567-576: the buffer must grow and buffer_size *= 2 overflows.  The
\* value wraps, and realloc, asked for that value converted to size_t, fails;
\* or the multiplication traps.
N_Overflow ==
    /\ n_pc = "loop"
    /\ needs_growth(n_total_bytes_read, n_buffer_size)
    /\ doubling_overflows(n_buffer_size)
    /\ \/ /\ n_buffer_size' = wrapped_double(n_buffer_size)
          /\ n_pc' = "returned"
       \/ /\ n_buffer_size' = n_buffer_size
          /\ n_pc' = "trapped"
    /\ UNCHANGED <<n_total_bytes_read, n_count, n_small>>

Init == PoolInit /\ PipeIdle /\ TokIdle /\ CreateIdle /\ WriteIdle /\ ReadIdle /\ ErrIdle /\ FaultIdle /\ ResolveIdle /\ MainIdle /\ ConnIdle /\ GrowIdle

Next ==
    \/ WorkerStep
    \/ DispatcherStep
    \/ DestroyerStep

Spec == Init /\ [][Next]_vars

\* The steps a worker takes once it can: everything in do_work but a
\* spurious return of pthread_cond_wait, which may never happen.
WorkerProgress(w) ==
    /\ \/ W_Lock(w) \/ W_Wait(w) \/ W_Reacquire(w) \/ W_Exit(w)
       \/ W_Dequeue(w) \/ W_Unlock(w) \/ W_RunStart(w) \/ W_RunEnd(w)
    /\ UNCHANGED <<pipeVars, relayVars, tokVars, createVars, writeVars, readVars, errVars, faultVars, resolveVars, mainVars, connVars, growVars>>

\* The steps of a dispatch call that has been made.
DispatchProgress ==
    /\ \/ D_Lock \/ D_Refuse \/ D_NoMemory \/ D_Enqueue \/ D_Unlock
       \/ D_Signal
    /\ UNCHANGED <<pipeVars, relayVars, tokVars, createVars, writeVars, readVars, errVars, faultVars, resolveVars, mainVars, connVars, growVars>>

\* The steps of a destroy_threadpool call that has been made, a spurious
\* return of its pthread_cond_wait aside.
DestroyProgress ==
    /\ \/ X_Lock \/ X_Drain \/ X_Reacquire \/ X_Shutdown \/ X_Broadcast
       \/ X_Join \/ X_Return
    /\ UNCHANGED <<pipeVars, relayVars, tokVars, createVars, writeVars, readVars, errVars, faultVars, resolveVars, mainVars, connVars, growVars>>

\* The pool under a scheduler that lets every thread that can run
\* infinitely often run, and every handler return: a thread that asks for
\* the lock gets it if the lock is free again and again.
FairSpec ==
    /\ Spec
    /\ \A w \in Workers : SF_vars(WorkerProgress(w))
    /\ SF_vars(DispatchProgress)
    /\ SF_vars(DestroyProgress)

\* The pool in which any pthread call of do_work may fail.
FaultNext ==
    \/ WorkerStep
    \/ DispatcherStep
    \/ DestroyerStep
    \/ FaultStep

FaultSpec == Init /\ [][FaultNext]_vars

PipeStart == PoolInit /\ num_threads = 1 /\ PipeInit /\ TokIdle /\ CreateIdle /\ WriteIdle /\ ReadIdle /\ ErrIdle /\ FaultIdle /\ ResolveIdle /\ MainIdle /\ ConnIdle /\ GrowIdle

PipeNext ==
    \/ P_Read /\ UNCHANGED <<poolVars, tokVars, createVars, writeVars, readVars, errVars, faultVars, resolveVars, mainVars, connVars, growVars>>
    \/ P_Normalize /\ UNCHANGED <<poolVars, tokVars, createVars, writeVars, readVars, errVars, faultVars, resolveVars, mainVars, connVars, growVars>>
    \/ P_Validate /\ UNCHANGED <<poolVars, tokVars, createVars, writeVars, readVars, errVars, faultVars, resolveVars, mainVars, connVars, growVars>>
    \/ P_Filter /\ UNCHANGED <<poolVars, tokVars, createVars, writeVars, readVars, errVars, faultVars, resolveVars, mainVars, connVars, growVars>>
    \/ P_Clean /\ UNCHANGED <<poolVars, tokVars, createVars, writeVars, readVars, errVars, faultVars, resolveVars, mainVars, connVars, growVars>>
    \/ P_Port /\ UNCHANGED <<poolVars, tokVars, createVars, writeVars, readVars, errVars, faultVars, resolveVars, mainVars, connVars, growVars>>
    \/ P_Connect /\ UNCHANGED <<poolVars, tokVars, createVars, writeVars, readVars, errVars, faultVars, resolveVars, mainVars, growVars>>
    \/ P_Forward /\ UNCHANGED <<poolVars, tokVars, createVars, writeVars, readVars, errVars, faultVars, resolveVars, mainVars, connVars, growVars>>
    \/ P_RelayRead /\ UNCHANGED <<poolVars, tokVars, createVars, writeVars, readVars, errVars, faultVars, resolveVars, mainVars, connVars, growVars>>
    \/ P_RelayWrite /\ UNCHANGED <<poolVars, tokVars, createVars, writeVars, readVars, errVars, faultVars, resolveVars, mainVars, connVars, growVars>>
    \/ P_Finish /\ UNCHANGED <<poolVars, tokVars, createVars, writeVars, readVars, errVars, faultVars, resolveVars, mainVars, connVars, growVars>>

PipeSpec == PipeStart /\ [][PipeNext]_vars

TokStart == PoolInit /\ num_threads = 1 /\ PipeIdle /\ TokInit /\ CreateIdle /\ WriteIdle /\ ReadIdle /\ ErrIdle /\ FaultIdle /\ ResolveIdle /\ MainIdle /\ ConnIdle /\ GrowIdle

TokNext ==
    \/ \E w \in TokWorkers : T_First(w) /\ UNCHANGED <<poolVars, pipeVars, relayVars, createVars, writeVars, readVars, errVars, faultVars, resolveVars, mainVars, connVars, growVars>>
    \/ \E w \in TokWorkers : T_Visit(w) /\ UNCHANGED <<poolVars, pipeVars, relayVars, createVars, writeVars, readVars, errVars, faultVars, resolveVars, mainVars, connVars, growVars>>
    \/ \E w \in TokWorkers : T_End(w) /\ UNCHANGED <<poolVars, pipeVars, relayVars, createVars, writeVars, readVars, errVars, faultVars, resolveVars, mainVars, connVars, growVars>>
    \/ \E w \in TokWorkers : T_Free(w) /\ UNCHANGED <<poolVars, pipeVars, relayVars, createVars, writeVars, readVars, errVars, faultVars, resolveVars, mainVars, connVars, growVars>>

TokSpec == TokStart /\ [][TokNext]_vars

CreateStart == CreateInit /\ PipeIdle /\ TokIdle /\ WriteIdle /\ ReadIdle /\ ErrIdle /\ FaultIdle /\ ResolveIdle /\ MainIdle /\ ConnIdle /\ GrowIdle

CreateNext ==
    \/ CreatorStep
    \/ CreatedWorkerStep

CreateSpec == CreateStart /\ [][CreateNext]_vars

WriteStart == PoolInit /\ num_threads = 1 /\ PipeIdle /\ TokIdle /\ CreateIdle /\ WriteInit /\ ReadIdle /\ ErrIdle /\ FaultIdle /\ ResolveIdle /\ MainIdle /\ ConnIdle /\ GrowIdle

WriteNext ==
    \/ WS_Write /\ UNCHANGED <<poolVars, pipeVars, relayVars, tokVars, createVars, readVars, errVars, faultVars, resolveVars, mainVars, connVars, growVars>>
    \/ WS_Fail /\ UNCHANGED <<poolVars, pipeVars, relayVars, tokVars, createVars, readVars, errVars, faultVars, resolveVars, mainVars, connVars, growVars>>

WriteSpec == WriteStart /\ [][WriteNext]_vars

ReadStart == PoolInit /\ num_threads = 1 /\ PipeIdle /\ TokIdle /\ CreateIdle /\ WriteIdle /\ ReadInit /\ ErrIdle /\ FaultIdle /\ ResolveIdle /\ MainIdle /\ ConnIdle /\ GrowIdle

ReadNext ==
    \/ R_Alloc /\ UNCHANGED <<poolVars, pipeVars, relayVars, tokVars, createVars, writeVars, errVars, faultVars, resolveVars, mainVars, connVars, growVars>>
    \/ R_SetTimeout /\ UNCHANGED <<poolVars, pipeVars, relayVars, tokVars, createVars, writeVars, errVars, faultVars, resolveVars, mainVars, connVars, growVars>>
    \/ R_GrowFails /\ UNCHANGED <<poolVars, pipeVars, relayVars, tokVars, createVars, writeVars, errVars, faultVars, resolveVars, mainVars, connVars, growVars>>
    \/ R_ReadFails /\ UNCHANGED <<poolVars, pipeVars, relayVars, tokVars, createVars, writeVars, errVars, faultVars, resolveVars, mainVars, connVars, growVars>>
    \/ R_ReadEof /\ UNCHANGED <<poolVars, pipeVars, relayVars, tokVars, createVars, writeVars, errVars, faultVars, resolveVars, mainVars, connVars, growVars>>
    \/ R_Read /\ UNCHANGED <<poolVars, pipeVars, relayVars, tokVars, createVars, writeVars, errVars, faultVars, resolveVars, mainVars, connVars, growVars>>
    \/ R_Caller /\ UNCHANGED <<poolVars, pipeVars, relayVars, tokVars, createVars, writeVars, errVars, faultVars, resolveVars, mainVars, connVars, growVars>>

ReadSpec == ReadStart /\ [][ReadNext]_vars

ErrStart == PoolInit /\ num_threads = 1 /\ PipeIdle /\ TokIdle /\ CreateIdle /\ WriteIdle /\ ReadIdle /\ ErrInit /\ FaultIdle /\ ResolveIdle /\ MainIdle /\ ConnIdle /\ GrowIdle

ErrNext ==
    \/ E_Compose /\ UNCHANGED <<poolVars, pipeVars, relayVars, tokVars, createVars, writeVars, readVars, faultVars, resolveVars, mainVars, connVars, growVars>>
    \/ E_Write /\ UNCHANGED <<poolVars, pipeVars, relayVars, tokVars, createVars, writeVars, readVars, faultVars, resolveVars, mainVars, connVars, growVars>>
    \/ E_WriteFails /\ UNCHANGED <<poolVars, pipeVars, relayVars, tokVars, createVars, writeVars, readVars, faultVars, resolveVars, mainVars, connVars, growVars>>

ErrSpec == ErrStart /\ [][ErrNext]_vars

ResolveStart == PoolInit /\ num_threads = 1 /\ PipeIdle /\ TokIdle /\ CreateIdle /\ WriteIdle /\ ReadIdle /\ ErrIdle /\ FaultIdle /\ ResolveInit /\ MainIdle /\ ConnIdle /\ GrowIdle

ResolveNext ==
    \/ \E w \in ResolveWorkers : G_FilterLookup(w) /\ UNCHANGED <<poolVars, pipeVars, relayVars, tokVars, createVars, writeVars, readVars, errVars, faultVars, mainVars, connVars, growVars>>
    \/ \E w \in ResolveWorkers : G_FilterRead(w) /\ UNCHANGED <<poolVars, pipeVars, relayVars, tokVars, createVars, writeVars, readVars, errVars, faultVars, mainVars, connVars, growVars>>
    \/ \E w \in ResolveWorkers : G_ConnectLookup(w) /\ UNCHANGED <<poolVars, pipeVars, relayVars, tokVars, createVars, writeVars, readVars, errVars, faultVars, mainVars, connVars, growVars>>
    \/ \E w \in ResolveWorkers : G_ConnectRead(w) /\ UNCHANGED <<poolVars, pipeVars, relayVars, tokVars, createVars, writeVars, readVars, errVars, faultVars, mainVars, connVars, growVars>>

ResolveSpec == ResolveStart /\ [][ResolveNext]_vars

MainStart == PoolInit /\ PipeIdle /\ TokIdle /\ CreateIdle /\ WriteIdle /\ ReadIdle /\ ErrIdle /\ FaultIdle /\ ResolveIdle /\ MainInit /\ ConnIdle /\ GrowIdle

\* The steps of main itself.
ListenerStep ==
    \/ M_Configure /\ UNCHANGED <<poolVars, pipeVars, relayVars, tokVars, createVars, writeVars, readVars, errVars, faultVars, resolveVars, connVars, growVars>>
    \/ M_LoopTest /\ UNCHANGED <<poolVars, pipeVars, relayVars, tokVars, createVars, writeVars, readVars, errVars, faultVars, resolveVars, connVars, growVars>>
    \/ M_NoContext /\ UNCHANGED <<poolVars, pipeVars, relayVars, tokVars, createVars, writeVars, readVars, errVars, faultVars, resolveVars, connVars, growVars>>
    \/ M_AcceptFails /\ UNCHANGED <<poolVars, pipeVars, relayVars, tokVars, createVars, writeVars, readVars, errVars, faultVars, resolveVars, connVars, growVars>>
    \/ M_Accept /\ UNCHANGED <<poolVars, pipeVars, relayVars, tokVars, createVars, writeVars, readVars, errVars, faultVars, resolveVars, connVars, growVars>>
    \/ M_Close /\ UNCHANGED <<poolVars, pipeVars, relayVars, tokVars, createVars, writeVars, readVars, errVars, faultVars, resolveVars, connVars, growVars>>
    \/ M_Dispatch /\ UNCHANGED <<pipeVars, relayVars, tokVars, createVars, writeVars, readVars, errVars, faultVars, resolveVars, connVars, growVars>>
    \/ M_Dispatched /\ UNCHANGED <<poolVars, pipeVars, relayVars, tokVars, createVars, writeVars, readVars, errVars, faultVars, resolveVars, connVars, growVars>>
    \/ M_Destroy /\ UNCHANGED <<pipeVars, relayVars, tokVars, createVars, writeVars, readVars, errVars, faultVars, resolveVars, connVars, growVars>>
    \/ M_Exit /\ UNCHANGED <<poolVars, pipeVars, relayVars, tokVars, createVars, writeVars, readVars, errVars, faultVars, resolveVars, connVars, growVars>>

\* The steps of main inside dispatch and destroy_threadpool.  main calls
\* dispatch only before destroy_threadpool, so dont_accept is clear at every
\* call and the refusal of lines 90-91 does not occur.
ListenerPoolStep ==
    \/ MainRuns /\ D_Lock /\ UNCHANGED <<pipeVars, relayVars, tokVars, createVars, writeVars, readVars, errVars, faultVars, resolveVars, mainVars, connVars, growVars>>
    \/ MainRuns /\ D_NoMemory /\ UNCHANGED <<pipeVars, relayVars, tokVars, createVars, writeVars, readVars, errVars, faultVars, resolveVars, mainVars, connVars, growVars>>
    \/ MainRuns /\ D_Enqueue /\ UNCHANGED <<pipeVars, relayVars, tokVars, createVars, writeVars, readVars, errVars, faultVars, resolveVars, mainVars, connVars, growVars>>
    \/ MainRuns /\ D_Unlock /\ UNCHANGED <<pipeVars, relayVars, tokVars, createVars, writeVars, readVars, errVars, faultVars, resolveVars, mainVars, connVars, growVars>>
    \/ MainRuns /\ D_Signal /\ UNCHANGED <<pipeVars, relayVars, tokVars, createVars, writeVars, readVars, errVars, faultVars, resolveVars, mainVars, connVars, growVars>>
    \/ MainRuns /\ X_Lock /\ UNCHANGED <<pipeVars, relayVars, tokVars, createVars, writeVars, readVars, errVars, faultVars, resolveVars, mainVars, connVars, growVars>>
    \/ MainRuns /\ X_Drain /\ UNCHANGED <<pipeVars, relayVars, tokVars, createVars, writeVars, readVars, errVars, faultVars, resolveVars, mainVars, connVars, growVars>>
    \/ MainRuns /\ X_Spurious /\ UNCHANGED <<pipeVars, relayVars, tokVars, createVars, writeVars, readVars, errVars, faultVars, resolveVars, mainVars, connVars, growVars>>
    \/ MainRuns /\ X_Reacquire /\ UNCHANGED <<pipeVars, relayVars, tokVars, createVars, writeVars, readVars, errVars, faultVars, resolveVars, mainVars, connVars, growVars>>
    \/ MainRuns /\ X_Shutdown /\ UNCHANGED <<pipeVars, relayVars, tokVars, createVars, writeVars, readVars, errVars, faultVars, resolveVars, mainVars, connVars, growVars>>
    \/ MainRuns /\ X_Broadcast /\ UNCHANGED <<pipeVars, relayVars, tokVars, createVars, writeVars, readVars, errVars, faultVars, resolveVars, mainVars, connVars, growVars>>
    \/ MainRuns /\ X_Join /\ UNCHANGED <<pipeVars, relayVars, tokVars, createVars, writeVars, readVars, errVars, faultVars, resolveVars, mainVars, connVars, growVars>>
    \/ MainRuns /\ X_Return /\ UNCHANGED <<pipeVars, relayVars, tokVars, createVars, writeVars, readVars, errVars, faultVars, resolveVars, mainVars, connVars, growVars>>

\* The steps of the workers while the process runs.
ListenerWorkerStep ==
    \/ \E w \in 1..num_threads : MainRuns /\ W_Lock(w) /\ UNCHANGED <<pipeVars, relayVars, tokVars, createVars, writeVars, readVars, errVars, faultVars, resolveVars, mainVars, connVars, growVars>>
    \/ \E w \in 1..num_threads : MainRuns /\ W_Wait(w) /\ UNCHANGED <<pipeVars, relayVars, tokVars, createVars, writeVars, readVars, errVars, faultVars, resolveVars, mainVars, connVars, growVars>>
    \/ \E w \in 1..num_threads : MainRuns /\ W_Spurious(w) /\ UNCHANGED <<pipeVars, relayVars, tokVars, createVars, writeVars, readVars, errVars, faultVars, resolveVars, mainVars, connVars, growVars>>
    \/ \E w \in 1..num_threads : MainRuns /\ W_Reacquire(w) /\ UNCHANGED <<pipeVars, relayVars, tokVars, createVars, writeVars, readVars, errVars, faultVars, resolveVars, mainVars, connVars, growVars>>
    \/ \E w \in 1..num_threads : MainRuns /\ W_Exit(w) /\ UNCHANGED <<pipeVars, relayVars, tokVars, createVars, writeVars, readVars, errVars, faultVars, resolveVars, mainVars, connVars, growVars>>
    \/ \E w \in 1..num_threads : MainRuns /\ W_Dequeue(w) /\ UNCHANGED <<pipeVars, relayVars, tokVars, createVars, writeVars, readVars, errVars, faultVars, resolveVars, mainVars, connVars, growVars>>
    \/ \E w \in 1..num_threads : MainRuns /\ W_Unlock(w) /\ UNCHANGED <<pipeVars, relayVars, tokVars, createVars, writeVars, readVars, errVars, faultVars, resolveVars, mainVars, connVars, growVars>>
    \/ \E w \in 1..num_threads : MainRuns /\ W_RunStart(w) /\ UNCHANGED <<pipeVars, relayVars, tokVars, createVars, writeVars, readVars, errVars, faultVars, resolveVars, mainVars, connVars, growVars>>
    \/ \E w \in 1..num_threads : MainRuns /\ W_RunEnd(w) /\ UNCHANGED <<pipeVars, relayVars, tokVars, createVars, writeVars, readVars, errVars, faultVars, resolveVars, mainVars, connVars, growVars>>

MainNext ==
    \/ ListenerStep
    \/ ListenerPoolStep
    \/ ListenerWorkerStep

MainSpec == MainStart /\ [][MainNext]_vars

\* The steps main takes once it can while the process runs: everything
\* but the return of accept, which waits for a client, and a spurious return
\* of destroy_threadpool's wait.
ListenerProgress ==
    \/ (M_Configure \/ M_LoopTest \/ M_Dispatched \/ M_Close \/ M_Exit) /\ UNCHANGED <<poolVars, pipeVars, relayVars, tokVars, createVars, writeVars, readVars, errVars, faultVars, resolveVars, connVars, growVars>>
    \/ (M_Dispatch \/ M_Destroy) /\ UNCHANGED <<pipeVars, relayVars, tokVars, createVars, writeVars, readVars, errVars, faultVars, resolveVars, connVars, growVars>>
    \/ /\ MainRuns
       /\ \/ D_Lock \/ D_NoMemory \/ D_Enqueue \/ D_Unlock \/ D_Signal
          \/ X_Lock \/ X_Drain \/ X_Reacquire \/ X_Shutdown \/ X_Broadcast
          \/ X_Join \/ X_Return
       /\ UNCHANGED <<pipeVars, relayVars, tokVars, createVars, writeVars, readVars, errVars, faultVars, resolveVars, mainVars, connVars, growVars>>

\* The steps a worker takes once it can while the process runs.
ListenerWorkerProgress(w) == MainRuns /\ WorkerProgress(w)

\* The listener and its pool under a scheduler that lets every thread that
\* can run infinitely often run, and every handler return.
MainFairSpec ==
    /\ MainSpec
    /\ \A w \in Workers : SF_vars(ListenerWorkerProgress(w))
    /\ SF_vars(ListenerProgress)

GrowStart == PoolInit /\ num_threads = 1 /\ PipeIdle /\ TokIdle /\ CreateIdle /\ WriteIdle /\ ReadIdle /\ ErrIdle /\ FaultIdle /\ ResolveIdle /\ MainIdle /\ ConnIdle /\ GrowInit

GrowNext ==
    \/ N_Read /\ UNCHANGED <<poolVars, pipeVars, relayVars, tokVars, createVars, writeVars, readVars, errVars, faultVars, resolveVars, mainVars, connVars>>
    \/ N_GiveUp /\ UNCHANGED <<poolVars, pipeVars, relayVars, tokVars, createVars, writeVars, readVars, errVars, faultVars, resolveVars, mainVars, connVars>>
    \/ N_Overflow /\ UNCHANGED <<poolVars, pipeVars, relayVars, tokVars, createVars, writeVars, readVars, errVars, faultVars, resolveVars, mainVars, connVars>>

GrowSpec == GrowStart /\ [][GrowNext]_vars

\* The steps of the caller of create_threadpool that a scheduler owes it.
CreatorProgress ==
    /\ \/ C_Check \/ C_Alloc \/ C_Spawn \/ C_Return \/ C_Cancel \/ C_Join
       \/ C_Exit
    /\ UNCHANGED <<pipeVars, relayVars, tokVars, writeVars, readVars, errVars, faultVars, resolveVars, mainVars, connVars, growVars>>

\* The steps of a started worker that a scheduler owes it: all but a
\* spurious return of pthread_cond_wait.
CreatedWorkerProgress(w) ==
    /\ ProcessRuns
    /\ \/ (W_Lock(w) \/ W_Wait(w) \/ W_Reacquire(w)) /\ UNCHANGED createVars
       \/ W_ActOnCancel(w)
       \/ W_CancelUnwind(w)
    /\ UNCHANGED <<pipeVars, relayVars, tokVars, writeVars, readVars, errVars, faultVars, resolveVars, mainVars, connVars, growVars>>

\* create_threadpool under a scheduler that lets every thread that can run
\* infinitely often run.
CreateFairSpec ==
    /\ CreateSpec
    /\ SF_vars(CreatorProgress)
    /\ \A w \in Created : SF_vars(CreatedWorkerProgress(w))

(***************************************************************************)
(* Properties of the worker pool.                                          *)
(***************************************************************************)
\* The work_t nodes that are in the queue.
InQueue == {QueueNodes[i] : i \in 1..Len(QueueNodes)}

\* Worker w holds a dequeued item that it has not finished executing.
Holds(w, n) == work[w] = n /\ wpc[w] \in {"unlock", "run", "running"}

\* C1: for every pool size and interleaving, each item dispatched while the
\* pool accepts is executed exactly once: its handler is started at most
\* once, only for an accepted argument, no two workers hold the same item,
\* and none is skipped: once destroy_threadpool has returned, every accepted
\* item has been executed.
C1_EachItemExecutedExactlyOnce ==
    /\ \A a \in Args : Len(started[a]) <= 1 /\ finished[a] <= Len(started[a])
    /\ \A a \in Args \ accepted : started[a] = <<>>
    /\ \A w, v \in 1..num_threads :
          (w # v /\ work[w] # NULL) => work[w] # work[v]
    /\ xpc = "done" => \A a \in accepted : finished[a] = 1

\* C2: when destroy_threadpool was called with items still queued, then at
\* its return every enqueued item has finished executing, the queue is empty
\* and every worker has exited and been joined.
C2_DestroyReturnsAfterDrain ==
    (xpc = "done" /\ queued_at_destroy > 0) =>
        /\ \A a \in accepted : finished[a] = 1
        /\ qsize = 0 /\ qhead = NULL
        /\ \A w \in 1..num_threads : wpc[w] = "exit"
        /\ xjoin = num_threads + 1

\* C3, state part: an exited worker holds no item, and every item that has
\* left the queue is either executed or held by a worker that is still
\* between its dequeue and the end of the handler.
C3_NoItemAbandoned ==
    /\ \A w \in 1..num_threads : wpc[w] = "exit" => work[w] = NULL
    /\ \A n \in 1..nalloc :
          \/ n \in InQueue
          \/ finished[work_arg[n]] = 1
          \/ \E w \in 1..num_threads : Holds(w, n)

C4_ShutdownOnlyWhenDrained ==
    shutdown = 1 => (dont_accept = 1 /\ qsize = 0)

\* C5: once dont_accept is set, a dispatch call is a no-op that drops the
\* request: its steps leave the queue's links and count, both flags and the
\* set of work items as they were, wake no worker, and the call returns
\* with the request dropped.
C5_DrainingDispatchIsNoOp ==
    [][(dont_accept = 1 /\ dpc \in {"lock", "check"} /\ dpc' # dpc) =>
          /\ <<qhead, qtail, qsize, next>>' = <<qhead, qtail, qsize, next>>
          /\ <<dont_accept, shutdown>>' = <<dont_accept, shutdown>>
          /\ <<nalloc, work_arg, accepted>>' = <<nalloc, work_arg, accepted>>
          /\ wpc' = wpc
          /\ dpc = "check" => (dpc' = "idle" /\ darg \in dropped')]_vars

\* C5's case: a dispatch call found dont_accept set and returned.
C5_Witness == dont_accept = 1 /\ dpc = "idle" /\ darg \in dropped

\* C6: the count equals the number of nodes linked from head to tail, and
\* head is null exactly when tail is null exactly when the count is 0.
C6_CountMatchesLinkedNodes ==
    /\ qsize = Len(QueueNodes)
    /\ (qhead = NULL) <=> (qtail = NULL)
    /\ (qhead = NULL) <=> (qsize = 0)
    /\ qsize > 0 => (QueueNodes[qsize] = qtail /\ next[qtail] = NULL)

\* C6's case: after enqueues and a dequeue the queue holds two nodes, and
\* later it is empty again.
C6_Witness == qsize = 2 /\ qhead = 2 /\ qtail = 3

(***************************************************************************)
(* Properties of the pipeline.                                             *)
(***************************************************************************)
\* The lines of a text, split at each "\r\n".
RECURSIVE Lines(_)
Lines(s) ==
    LET i == strstr(s, <<CRLF>>)
    IN IF i = 0 THEN <<s>>
       ELSE <<SubSeq(s, 1, i - 1)>> \o Lines(SubSeq(s, i + 1, Len(s)))

\* The request line and header lines of a request: what precedes the first
\* empty line.
HeaderSection(w) == SubSeq(w, 1, strstr(w, <<CRLF, CRLF>>) - 1)
RequestLine(w) == Head(Lines(HeaderSection(w)))
HeaderLines(w) == Tail(Lines(HeaderSection(w)))

\* The request has a header line whose field name is Host (in either case).
HasHostHeader(w) ==
    \E k \in 1..Len(HeaderLines(w)) :
        /\ Len(HeaderLines(w)[k]) >= 1
        /\ HeaderLines(w)[k][1] \in {"Host:", "host:"}

\* The request line has exactly method, path and version, the version is
\* 1.0 or 1.1, a "Host: value" header line is present, and the method is
\* not GET.
NonGetOtherwiseValid(w) ==
    /\ WordCount(RequestLine(w)) = 3
    /\ Word(RequestLine(w), 1) # <<"GET">>
    /\ Word(RequestLine(w), 3) \in {<<"HTTP/1.0">>, <<"HTTP/1.1">>}
    /\ \E k \in 1..Len(HeaderLines(w)) :
        /\ Len(HeaderLines(w)[k]) >= 3
        /\ SubSeq(HeaderLines(w)[k], 1, 2) = <<"Host:", SP>>

\* C7 (state part): the context is released at most once; until then its
\* structure, filter copy and client socket are live, and once thread_function
\* has returned it has been released once, no block is left allocated and the
\* client socket is closed.
C7_ReleaseState ==
    /\ nrelease \in {0, 1}
    /\ (ppc = "done") <=> (nrelease = 1)
    /\ nrelease = 0 =>
        /\ client_socket = "open"
        /\ {"ci", "filter_content"} \subseteq owned
    /\ nrelease = 1 =>
        /\ client_socket = "closed"
        /\ owned = {}

\* C7: whichever stage the pipeline leaves from, the context is released
\* exactly once, and no step reads or writes it after the release.
C7_ReleasedExactlyOnce ==
    /\ []C7_ReleaseState
    /\ [][nrelease >= 1 => UNCHANGED <<pipeVars, relayVars>>]_vars

\* C7 witness: a connection served to the end of the relay, all three
\* strings allocated, and released.
C7_Witness ==
    /\ ppc = "done"
    /\ failed = "none"
    /\ ~forwarded.null
    /\ ~ci_clean_host_name.null
    /\ nrelease = 1

\* The order of the stages before teardown.
StageOrder ==
    <<"read", "normalize", "validate", "filter", "derive", "connect",
      "forward", "relay">>

\* The stages that ran, teardown aside.
StagesRun ==
    IF stages # <<>> /\ stages[Len(stages)] = "teardown"
    THEN SubSeq(stages, 1, Len(stages) - 1)
    ELSE stages

\* C8: the stages that ran are an initial part of the fixed order, the
\* stage that failed is the last of them, and teardown comes last.
C8_StagesInOrderStopAtFailure ==
    /\ \E k \in 0..Len(StageOrder) : StagesRun = SubSeq(StageOrder, 1, k)
    /\ failed # "none" =>
        /\ StagesRun # <<>>
        /\ StagesRun[Len(StagesRun)] = failed
    /\ ppc = "done" => stages = Append(StagesRun, "teardown")

\* C8 witness: the forward stage failed and the pipeline went to teardown
\* without relaying.
C8_Witness ==
    /\ ppc = "done"
    /\ failed = "forward"
    /\ stages = <<"read", "normalize", "validate", "filter", "derive",
                  "connect", "forward", "teardown">>

\* C9: a request without a Host header, read without a fault, gets exactly
\* a 400 and set_destination_server_connection is never called.
C9_NoHostHeaderYields400 ==
    (ppc = "done" /\ ~fault /\ ~HasHostHeader(wire)) =>
        /\ responses = <<ERROR_400_BAD_REQUEST>>
        /\ connect_calls = 0

\* C10: a request that is valid but for its method, read without a fault,
\* gets exactly a 501 and set_destination_server_connection is never called.
C10_NonGetYields501 ==
    (ppc = "done" /\ ~fault /\ NonGetOtherwiseValid(wire)) =>
        /\ responses = <<ERROR_501_NOT_IMPLEMENTED>>
        /\ connect_calls = 0

\* The validate stage passed: the filter decision was taken.
FilterRan == \E k \in 1..Len(stages) : stages[k] = "filter"

\* The pipeline stopped without calling set_destination_server_connection
\* and without writing the request to a destination.
NoDestination ==
    /\ connect_calls = 0
    /\ destination_server_sd = "none"
    /\ forwarded.null
    /\ ppc \in {"finish", "done"}

\* C11: after validation, a Host value that does not resolve gets exactly a
\* 404 and a host the filter reports blocked gets exactly a 403; in both
\* cases no destination connection is opened and nothing is forwarded.
C11_PolicyErrorsAbortBeforeConnect ==
    FilterRan =>
        /\ checked_ip = NoAddr =>
            (responses = <<ERROR_404_NOT_FOUND>> /\ NoDestination)
        /\ is_filtered = 1 =>
            (responses = <<ERROR_403_FORBIDDEN>> /\ NoDestination)

\* C11 witness: host a resolved to 192.168.1.5, the filter blocked it and
\* the pipeline has finished.
C11_Witness ==
    /\ ppc = "done"
    /\ checked_ip = IpA2
    /\ is_filtered = 1
    /\ responses = <<ERROR_403_FORBIDDEN>>

\* The line is an address entry a or a/m whose m, when given, is wholly a
\* number.
IsCidrEntry(line) ==
    /\ line.digit
    /\ Len(line.ip) = 4
    /\ line.has_slash => (strtol(line.mask).ok /\ strtol(line.mask).all)

\* The mask length of an entry as the specification reads it: 32 without a
\* mask, else the number clamped to [0, 32].
ClampedMask(line) ==
    IF ~line.has_slash THEN 32
    ELSE LET m == strtol(line.mask).val
         IN IF m < 0 THEN 0 ELSE IF m > 32 THEN 32 ELSE m

\* The m most significant bits of two addresses are equal.
PrefixEqual(h, a, m) == \A i \in 0..(m - 1) : BitChar(h, i) = BitChar(a, i)

\* C12: with a filter of one address entry a/m and a host that resolved to
\* h, the filter reports the host blocked exactly when the first m bits of h
\* and a are equal.
C12_CidrLineBlocksExactlyOnPrefix ==
    ( /\ FilterRan
      /\ is_filtered # -1
      /\ Len(ci_filter_content) = 1
      /\ IsCidrEntry(ci_filter_content[1]) ) =>
        ( (is_filtered = 1) <=>
            PrefixEqual(checked_ip, ci_filter_content[1].ip,
                        ClampedMask(ci_filter_content[1])) )

\* C13: with a filter of host-name literals only and a host that resolved,
\* the filter reports the request blocked exactly when a literal equals the
\* Host value as it stands in the request, prefix and port included.
C13_LiteralBlocksExactlyRawHost ==
    ( /\ FilterRan
      /\ is_filtered # -1
      /\ \A k \in 1..Len(ci_filter_content) : ~ci_filter_content[k].digit ) =>
        ( (is_filtered = 1) <=>
            \E k \in 1..Len(ci_filter_content) :
                ci_filter_content[k].name = ci_host_name.s )

\* C13 witness: Host: www.a:8080 against the literal a; the cleaned host a
\* resolved and the literal did not block.
C13_Witness ==
    /\ FilterRan
    /\ ci_host_name = Str(<<"www.", "a", ":", "8080">>)
    /\ ci_filter_content = <<NameLine(<<"a">>)>>
    /\ checked_ip # NoAddr
    /\ is_filtered = 0

\* The relay stage ran.
RelayRan == \E k \in 1..Len(stages) : stages[k] = "relay"

\* C14: while no read or write of the relay has failed, what the client has
\* been sent is the leading part of the destination's bytes that have been
\* read, in order; and when the relay ends on the destination's close the
\* client has been sent exactly the destination's bytes.
C14_RelayCopiesStreamInOrder ==
    relay_failures = 0 =>
        /\ Len(client_out) <= dest_pos
        /\ client_out = SubSeq(dest_stream, 1, Len(client_out))
        /\ (RelayRan /\ ppc \in {"finish", "done"} /\ failed = "none") =>
                client_out = dest_stream

\* C14 witness: a destination that sent three bytes and closed; the relay
\* has ended and the client has the three bytes.
C14_Witness ==
    /\ ppc = "done"
    /\ failed = "none"
    /\ relay_failures = 0
    /\ dest_pos = 3
    /\ client_out = <<1, 2, 3>>

\* C15: whatever the interleaving, the lines a worker's loop runs on are
\* the lines of its own copy, in order, and a loop that ends without a match
\* has run on all of them.
C15_EachWorkerTokenizesOwnCopy ==
    \A w \in TokWorkers :
        /\ \A k \in 1..Len(tk_seen[w]) : tk_seen[w][k] = LineOf(w, k)
        /\ (tk_pc[w] = "done" /\ ~tk_hit[w]) => Len(tk_seen[w]) = nlines

\* C16: once destroy_threadpool has been called it eventually returns, with
\* shutdown set and every worker terminated and joined.
C16_DestroyEventuallyReturns ==
    (xpc # "idle") ~>
        (xpc = "done" /\ shutdown = 1
         /\ \A w \in 1..num_threads : wpc[w] = "exit")

\* C17: when set_destination_server_connection fails, the client is sent
\* nothing, no request is written to a destination, and the only step left
\* is teardown.
C17_FailedConnectGoesToTeardown ==
    failed = "connect" =>
        /\ responses = <<>>
        /\ client_out = <<>>
        /\ forwarded.null
        /\ destination_server_sd = "none"
        /\ ppc \in {"finish", "done"}
        /\ StagesRun[Len(StagesRun)] = "connect"

\* C17 witness: the connection to the destination failed and the pipeline
\* has finished.
C17_Witness ==
    /\ ppc = "done"
    /\ failed = "connect"
    /\ connect_calls = 1
    /\ nrelease = 1

C18_RefusalWitness == cresult = "NULL" /\ cn = MAXT_IN_POOL + 1

\* C19: once a pthread_create of create_threadpool has failed, the loop of
\* line 270 comes to its end whatever the started workers are doing: every
\* started worker has been cancelled and joined and create_threadpool has
\* reported the failure by exit(EXIT_FAILURE).
C19_CancelAndJoinLoopTerminates ==
    (cpc = "cancel") ~>
        (/\ cpc = "exited"
         /\ cj = ci
         /\ \A w \in StartedWorkers : wpc[w] = "cancelled")

(***************************************************************************)
(* Properties of the request line.                                         *)
(***************************************************************************)
\* C20: a request passes validation only if its request line has exactly
\* three whitespace-separated words, and a request whose request line has
\* fewer or more than three words, read without a fault, gets exactly a 400.
C20_ExactlyThreeTokensOr400 ==
    /\ FilterRan => WordCount(RequestLine(wire)) = 3
    /\ (ppc = "done" /\ ~fault /\ WordCount(RequestLine(wire)) # 3)
           => responses = <<ERROR_400_BAD_REQUEST>>

(***************************************************************************)
(* Properties of the relay and of the helpers around it.                   *)
(***************************************************************************)
\* C21: the relay ends with success only on a zero-length read from the
\* destination with no failure before it; at the first failed read or failed
\* write no further read or write is issued, the relay reports failure and
\* the client is sent a 500.
C21_RelayAbortsAtFirstFailure ==
    /\ (RelayRan /\ ppc \in {"finish", "done"} /\ failed = "none")
           => (relay_failures = 0 /\ dest_pos = Len(dest_stream))
    /\ relay_failures >= 1
           => /\ relay_failures = 1
              /\ ppc \in {"finish", "done"}
              /\ failed = "relay"
              /\ responses = <<ERROR_500_INTERNAL>>

\* C22: whatever the partial writes, the bytes the socket has taken are the
\* first total_written_bytes bytes of the buffer, each once and in order;
\* write_to_socket returns a count only when that count is the requested
\* length and the whole buffer has been taken; and at a failed write it
\* issues no further write and returns -1, not the count written so far.
C22_ReliableWrite ==
    /\ w_sent = SubSeq(w_request, 1, w_total_written_bytes)
    /\ (w_pc = "returned" /\ w_errors = 0)
           => /\ w_ret = Len(w_request)
              /\ w_total_written_bytes = Len(w_request)
              /\ w_sent = w_request
    /\ w_errors >= 1
           => /\ w_errors = 1
              /\ w_pc = "returned"
              /\ w_ret = 0 - 1

\* C22 witness: a buffer of three bytes went out in more than one write and
\* the helper returned its length.
C22_Witness ==
    /\ w_pc = "returned"
    /\ w_calls > 1
    /\ w_errors = 0
    /\ w_request = <<1, 2, 3>>
    /\ w_ret = 3
    /\ w_sent = <<1, 2, 3>>

\* C22 witness of the failure: a write failed after a partial write.
C22_FailureWitness ==
    /\ w_pc = "returned"
    /\ w_errors = 1
    /\ w_total_written_bytes = 1
    /\ Len(w_request) = 3

\* C23: when the write of the request to the destination fails, the client
\* is sent exactly a 500, the relay is not run (nothing is read from the
\* destination or relayed to the client), and the destination socket is
\* closed by the time the finish label is reached.
C23_FailedForwardYields500 ==
    (fault /\ StagesRun # <<>> /\ StagesRun[Len(StagesRun)] = "forward"
           /\ forwarded.null /\ ppc # "forward")
        => /\ responses = <<ERROR_500_INTERNAL>>
           /\ ~RelayRan
           /\ dest_pos = 0
           /\ client_out = <<>>
           /\ destination_server_sd = "closed"
           /\ ppc \in {"finish", "done"}

\* C23 witness: the write of the request failed on an open destination
\* socket and the pipeline has reached the finish label.
C23_Witness ==
    /\ failed = "forward"
    /\ ppc = "finish"
    /\ connect_calls = 1
    /\ nrelease = 0
    /\ dest_stream # <<>>

(***************************************************************************)
(* Properties of read_from_client_socket.                                  *)
(***************************************************************************)
\* C24: the buffer always holds, in order, the bytes received so far and
\* has room for the terminator; when read_from_client_socket returns a text
\* it is those bytes and contains "\r\n\r\n"; when a read fails or times out,
\* the client closes before the marker, or an allocation fails, it returns
\* NULL with the buffer freed and thread_function sends exactly a 500.
C24_ReadUntilMarker ==
    /\ r_buffer = SubSeq(r_wire, 1, r_pos)
    /\ r_allocated => Len(r_buffer) < r_buffer_size
    /\ (r_pc \in {"returned", "done"} /\ r_cause = "none")
           => /\ ~r_ret.null
              /\ r_ret.s = SubSeq(r_wire, 1, r_pos)
              /\ strstr(r_ret.s, <<CRLF, CRLF>>) # 0
              /\ r_allocated
    /\ (r_pc \in {"returned", "done"} /\ r_cause # "none")
           => (r_ret.null /\ ~r_allocated)
    /\ r_pc = "done"
           => r_responses = IF r_cause = "none" THEN <<>>
                            ELSE <<ERROR_500_INTERNAL>>
    /\ r_cause = "eof" => strstr(r_wire, <<CRLF, CRLF>>) = 0

\* C24 witness: a request longer than the initial buffer was read in more
\* than one read, the buffer grew, and the text was returned.
C24_Witness ==
    /\ r_pc = "done"
    /\ r_cause = "none"
    /\ r_wire = LongWire
    /\ r_buffer_size = 2 * BUFFER_SIZE
    /\ r_ret.s = LongWire

\* C24 witness of the failure: the client closed before the marker.
C24_FailureWitness ==
    /\ r_pc = "done"
    /\ r_cause = "eof"
    /\ r_pos > 0
    /\ r_responses = <<ERROR_500_INTERNAL>>

(***************************************************************************)
(* Properties of set_connection_close.                                     *)
(***************************************************************************)
\* What follows the end-of-headers marker of a request.
BodyOf(w) == SubSeq(w, strstr(w, <<CRLF, CRLF>>) + 2, Len(w))

\* A header line whose field name is Connection, in either case.
IsConnectionLine(l) == Len(l) >= 1 /\ l[1] \in {"Connection:", "connection:"}

\* The request line and the header lines other than Connection, in order.
OtherLines(w) ==
    SelectSeq(Lines(HeaderSection(w)), LAMBDA l : ~IsConnectionLine(l))

\* set_connection_close has returned 1.
NormalizeSucceeded ==
    /\ Len(stages) >= 2
    /\ stages[2] = "normalize"
    /\ failed # "normalize"
    /\ ppc # "normalize"

\* C25: whenever set_connection_close reports success, the context holds a
\* request whose header block has the line "Connection: close": in place of
\* the Connection header the request had, or else as the last header line,
\* just before the end-of-headers marker; the request line, the other header
\* lines and what follows the marker are as they were received.
C25_NormalizeSetsConnectionClose ==
    NormalizeSucceeded =>
        /\ ~ci_request.null
        /\ \E k \in 1..Len(HeaderLines(ci_request.s)) :
               HeaderLines(ci_request.s)[k] = ConnectionClose
        /\ OtherLines(ci_request.s) = OtherLines(wire)
        /\ BodyOf(ci_request.s) = BodyOf(wire)
        /\ (\A k \in 1..Len(HeaderLines(wire)) :
                ~IsConnectionLine(HeaderLines(wire)[k]))
              => HeaderLines(ci_request.s)[Len(HeaderLines(ci_request.s))]
                     = ConnectionClose

(***************************************************************************)
(* Properties of the destination port.                                     *)
(***************************************************************************)
\* get_port has returned: the host was cleaned and the port stage is over.
PortParsed == ~ci_clean_host_name.null /\ ppc # "port"

\* The port a Host value names: the number after the colon that follows the
\* host (which an "http://" and a "www." may precede), 80 when there is no
\* such colon or no number after it.
NamedPort(host) ==
    LET a == IF Len(host) >= 1 /\ host[1] = "http://" THEN 2 ELSE 1
        b == IF Len(host) >= a /\ host[a] = "www." THEN a + 1 ELSE a
        colon == strstr_from(host, <<":">>, b)
    IN IF colon = 0 \/ colon = Len(host) THEN DefaultPort
       ELSE IF ~strtol(host[colon + 1]).ok THEN DefaultPort
       ELSE strtol(host[colon + 1]).val

\* C26: the port of the context is the one the original Host value names
\* after its host, 80 when it names none; a connection is attempted only
\* with a port in [0, 65535], and a named port outside that range gets
\* exactly a 500 and no connection.
C26_PortFromHostValue ==
    /\ connect_calls >= 1 => ci_host_port \in 0..MaxPort
    /\ PortParsed =>
        LET p == NamedPort(ci_host_name.s)
        IN IF p \in 0..MaxPort
           THEN ci_host_port = p /\ failed # "derive"
           ELSE /\ responses = <<ERROR_500_INTERNAL>>
                /\ connect_calls = 0
                /\ ppc \in {"finish", "done"}

(***************************************************************************)
(* Properties of the error responses.                                      *)
(***************************************************************************)
\* The title and the description the status table gives for a status.
TableTitle(status) ==
    CASE status = 400 -> "400 Bad Request"
      [] status = 403 -> "403 Forbidden"
      [] status = 404 -> "404 Not Found"
      [] status = 500 -> "500 Internal Server Error"
      [] status = 501 -> "501 Not supported"

TableDescription(status) ==
    CASE status = 400 -> "Bad Request."
      [] status = 403 -> "Access denied."
      [] status = 404 -> "File not found."
      [] status = 500 -> "Some server side error."
      [] status = 501 -> "Method is not supported."

\* The parts of a response text: the status line, the value of its
\* Content-Length header, and what follows the empty line.
StatusLineOf(m) == SubSeq(m, 1, strstr(m, "\r\n") - 1)
ContentLengthOf(m) ==
    LET at == strstr(m, "Content-Length: ") + Len("Content-Length: ")
    IN SubSeq(m, at, strstr_from(m, "\r\n", at) - 1)
HtmlBodyOf(m) == SubSeq(m, strstr(m, "\r\n\r\n") + 4, Len(m))

\* The number a text of decimal digits denotes.
RECURSIVE DecimalValue(_)
DecimalValue(t) ==
    IF t = "" THEN 0
    ELSE DecimalValue(SubSeq(t, 1, Len(t) - 1)) * 10
         + (strstr("0123456789", SubSeq(t, Len(t), Len(t))) - 1)

\* C27: the response composed for a status has the table's title in its
\* status line and in its HTML body, the table's description in the body,
\* and a Content-Length header whose value is the length of the body; what
\* the client is sent is that response, whole unless a write failed.
C27_ErrorResponseText ==
    /\ e_sent = SubSeq(e_message, 1, Len(e_sent))
    /\ (e_pc = "done" /\ ~e_failed) => e_sent = e_message
    /\ (e_pc \in {"write", "done"} /\ e_error \in ErrorTypes)
         => /\ StatusLineOf(e_message) = "HTTP/1.1 " \o TableTitle(e_error)
            /\ strstr(HtmlBodyOf(e_message), TableTitle(e_error)) # 0
            /\ strstr(HtmlBodyOf(e_message), TableDescription(e_error)) # 0
            /\ ContentLengthOf(e_message) # ""
            /\ DecimalValue(ContentLengthOf(e_message))
                   = Len(HtmlBodyOf(e_message))

\* C27 witness: a 501 response has been sent whole.
C27_Witness ==
    /\ e_pc = "done"
    /\ ~e_failed
    /\ e_error = ERROR_501_NOT_IMPLEMENTED
    /\ e_sent = e_message
    /\ Len(HtmlBodyOf(e_sent)) > 100

(***************************************************************************)
(* Further properties of the worker pool.                                  *)
(***************************************************************************)
\* C28: a worker that is about to call or is executing an item's handler is
\* not the owner of qlock: it released the lock after its dequeue.
C28_HandlerRunsOutsideLock ==
    \A w \in 1..num_threads :
        wpc[w] \in {"run", "running"} => qlock # w

\* C28 witness: while one worker executes a handler, dispatch holds the
\* lock and another worker has taken an item as well.
C28_Witness ==
    \E w, v \in 1..num_threads :
        /\ w # v
        /\ wpc[w] = "running"
        /\ wpc[v] \in {"run", "running"}
        /\ qlock = Dispatcher

\* The work_t nodes that have been enqueued and have left the queue.
Dequeued == (1..nalloc) \ InQueue

\* C29: items leave the queue in the order in which dispatch enqueued them
\* (node n is the n-th item enqueued): the queue holds its items in that
\* order, every dequeue takes the earliest item still queued, and so an item
\* has been dequeued only if every item dispatched before it has been.
C29_DequeueOrderIsDispatchOrder ==
    /\ [](\A i, j \in 1..Len(QueueNodes) :
              i < j => QueueNodes[i] < QueueNodes[j])
    /\ [](\A n, m \in 1..nalloc : (n < m /\ m \in Dequeued) => n \in Dequeued)
    /\ [][\A w \in Workers :
            (work'[w] # work[w] /\ work'[w] # NULL) =>
                /\ work'[w] = QueueNodes[1]
                /\ \A n \in InQueue : work'[w] <= n
                /\ \A n \in InQueue \ {work'[w]} : work_arg[work'[w]] < work_arg[n]]_vars

\* C29 witness: the second item dispatched has finished while the first,
\* dequeued before it, is still being executed.
C29_Witness ==
    /\ nalloc >= 2
    /\ finished[work_arg[2]] = 1
    /\ finished[work_arg[1]] = 0
    /\ \E w \in 1..num_threads : work[w] = 1 /\ wpc[w] = "running"

\* The workers that a failed pthread call has ended.
Faulted == {w \in 1..num_threads : sync_fault[w] # "none"}

\* C30: a worker ended by a failed lock, unlock, wait or signal does not
\* leave the pool lock held: no worker that has exited on such a fault owns
\* qlock, so a remaining worker that asks for the lock is never kept from
\* the queued items by a thread that no longer runs.
C30_FaultedWorkerLeavesLockFree ==
    \A w \in Faulted :
        /\ wpc[w] = "exit"
        /\ qlock # w

\* C40: a worker calls dequeue only when the queue is non-empty: at every
\* call of dequeue from do_work the queue has a head, so the empty branch
\* (unlock and return NULL) is not taken, the worker gets an item, and it
\* still owns the lock at its one unlock of the iteration (line 170).
C40_WorkerDequeuesOnlyWhenNonEmpty ==
    /\ [][\A w \in Workers :
            (wpc[w] = "test" /\ wpc'[w] = "unlock") =>
                /\ qsize > 0
                /\ qhead # NULL
                /\ dequeue(Queue).got # NULL
                /\ ~dequeue(Queue).unlocked
                /\ qlock = w
                /\ qlock' = w]_vars
    /\ [](\A w \in 1..num_threads :
            wpc[w] \in {"unlock", "run", "running"} => work[w] # NULL)

\* C40 witness: a worker has come back from dequeue with an item and is
\* about to unlock the lock it owns.
C40_Witness ==
    \E w \in 1..num_threads :
        wpc[w] = "unlock" /\ work[w] # NULL /\ qlock = w /\ qsize = 0

\* The outcome of worker w's connection when it is the only one: the
\* address the resolver gives for its host, compared with its own filter.
AloneChecked(w) == StableDns(get_clean_host(g_host[w], TRUE).s)
AloneResult(w) == is_filtered_host(g_policy[w], g_host[w], AloneChecked(w), TRUE)

\* C31: the outcome of a connection (allowed, 403 or 404, and the address
\* it connects to) is what its own request and filter give, whatever the
\* other worker resolves at the same time.
C31_OutcomeIndependentOfOtherWorkers ==
    \A w \in ResolveWorkers :
        g_pc[w] = "done" =>
            /\ g_result[w] = AloneResult(w)
            /\ g_connected[w] =
                 IF AloneResult(w) = 0 THEN AloneChecked(w) ELSE NoAddr

\* C33: when socket, bind or listen fails, main recognizes the value
\* set_my_server_configuration returns and exits with a failure status,
\* having called neither accept nor dispatch.
C33_SetupFailureExitsWithFailure ==
    (m_pc \notin {"none", "config"} /\ ws # WelcomeSocket) =>
        /\ exit_status = "EXIT_FAILURE"
        /\ accept_calls = 0
        /\ ncalls = 0

\* main has left the accept loop.
PastAcceptLoop == m_pc \in {"close", "destroy", "in_destroy", "exited"}

\* C32: the listener accepts and dispatches at most max_tasks connections;
\* once it has left the loop it accepts and dispatches no more; and when it
\* exits after destroying the pool, every connection it dispatched has been
\* processed to teardown (its handler has run and returned).
C32_ListenerStopsAtMaxAndDrains ==
    /\ [](accept_calls <= max_tasks /\ ncalls <= max_tasks)
    /\ [][PastAcceptLoop =>
            /\ accept_calls' = accept_calls
            /\ ncalls' = ncalls
            /\ PastAcceptLoop']_vars
    /\ [](exit_status = "EXIT_SUCCESS" =>
            /\ xpc = "done"
            /\ \A a \in 1..ncalls : finished[a] = 1)

\* C34: every path through dispatch releases the pool lock before it
\* returns: whenever the dispatcher is outside dispatch, or past its unlock,
\* it does not own qlock.
C34_DispatchReleasesLock ==
    dpc \in {"idle", "signal"} => qlock # Dispatcher

\* Every worker of the pool is blocked in pthread_cond_wait(&q_not_empty).
AllWorkersWaiting == \A w \in 1..num_threads : wpc[w] = "wait"

\* dispatch has enqueued an item and has not yet signalled q_not_empty.
SignalPending == dpc \in {"unlock", "signal"}

\* C35: no lost wakeup: in no reachable state is the queue non-empty and
\* shutdown clear while every worker is blocked in the wait on q_not_empty
\* and no signal is pending.
C35_NoLostWakeup ==
    ~(qsize > 0 /\ shutdown = 0 /\ AllWorkersWaiting /\ ~SignalPending)

\* C35 witness: two workers are blocked in the wait, an item has been
\* enqueued and dispatch is about to signal.
C35_Witness ==
    /\ num_threads = 2
    /\ qsize > 0
    /\ shutdown = 0
    /\ AllWorkersWaiting
    /\ dpc = "signal"

\* C36: the address the pipeline connects to is the address the filter
\* compared with the policy: connect() is never called with an address that
\* was not the one checked.
C36_ConnectsToCheckedAddress ==
    connected_ip # NoAddr =>
        /\ is_filtered = 0
        /\ connected_ip = checked_ip

\* C37: every connection context the listener creates is eventually
\* released: a context whose accept failed is freed by main at once, and
\* every context handed to dispatch is eventually torn down by its handler,
\* also when dispatch could not allocate the work item.
C37_EveryContextEventuallyReleased ==
    /\ [](m_ci.made - m_ci.freed =
            ncalls + (IF m_pc = "dispatch" THEN 1 ELSE 0))
    /\ \A a \in Args : (a <= ncalls) ~> (finished[a] = 1)

\* C38: the pipeline writes at most one error response to the client per
\* connection, the one of the stage that failed, and none when the relay
\* ended on the destination's end-of-stream.
C38_AtMostOneErrorResponse ==
    /\ Len(responses) <= 1
    /\ responses # <<>> => failed # "none"
    /\ (RelayRan /\ ppc \in {"finish", "done"} /\ failed = "none") =>
            responses = <<>>

\* C38 witness: the relay copied the destination's bytes, ended on its
\* end-of-stream, and the connection was torn down with no error response.
C38_Witness ==
    /\ ppc = "done"
    /\ RelayRan
    /\ failed = "none"
    /\ dest_pos = Len(dest_stream)
    /\ Len(dest_stream) > 0
    /\ responses = <<>>

\* C38 witness: a relay whose read failed after bytes had been copied ended
\* with exactly one error response.
C38_ErrorWitness ==
    /\ ppc = "done"
    /\ failed = "relay"
    /\ Len(client_out) > 0
    /\ responses = <<ERROR_500_INTERNAL>>

\* C39: in read-until-marker, for every sequence of read sizes, each read
\* is asked for at least 1 byte and at most buffer_size - 1 -
\* total_bytes_read bytes, total_bytes_read never exceeds buffer_size - 1
\* (so the terminator written at buffer[total_bytes_read] is inside the
\* buffer), and the capacity only ever doubles.
C39_ReadSizesStayInsideBuffer ==
    /\ [](n_pc # "idle" =>
            /\ n_total_bytes_read >= 0
            /\ n_total_bytes_read < n_buffer_size)
    /\ [][n_total_bytes_read' # n_total_bytes_read =>
            /\ n_count' >= 1
            /\ n_count' = n_buffer_size' - 1 - n_total_bytes_read
            /\ n_total_bytes_read' - n_total_bytes_read >= 1
            /\ n_total_bytes_read' - n_total_bytes_read <= n_count']_vars
    /\ [][n_buffer_size' # n_buffer_size =>
            /\ n_buffer_size' % 2 = 0
            /\ n_buffer_size' \div 2 = n_buffer_size]_vars
    /\ [](n_pc # "trapped")

====
